---------------------------- MODULE Spec2Model ----------------------------
(***************************************************************************)
(* A model of the YouTube dashboard's data pipeline:                       *)
(*                                                                         *)
(*   - services/youtube-data.ts (src/unnamed/part_004): the APICache       *)
(*     store, fetchWithRetry and the five tool functions;                  *)
(*   - app/api/youtube/trending/route.ts: the trending route with its      *)
(*     server cache and the mock-data fallback, and the client component   *)
(*     that calls it through a localStorage cache                          *)
(*     (src/src/components/TrendingTechVideos.tsx, lines 176-330);         *)
(*   - src/unnamed/part_005: the reputation-aware variant of the route;    *)
(*   - the dashboard component's fetchVideos over getTrendingVideos        *)
(*     (src/src/components/TrendingTechVideos.tsx, lines 12-51);           *)
(*   - the APICache object by itself, its methods called directly;         *)
(*   - two requests to one store in flight together;                       *)
(*   - the service's scoring functions by themselves.                      *)
(*                                                                         *)
(* They run in different JavaScript contexts and share no state, so a      *)
(* behaviour exercises one of them, chosen by `proc` in the initial        *)
(* state.                                                                  *)
(*                                                                         *)
(* Conventions.  Date.now() is `now`, in milliseconds.  JavaScript strings *)
(* that the code inspects (titles, tags, ISO durations) are sequences of   *)
(* one-character strings; strings that are only compared are TLA+ strings. *)
(* JavaScript numbers that come from divisions are exact rationals         *)
(* [n |-> numerator, d |-> denominator].                                   *)
(***************************************************************************)
EXTENDS Integers, Sequences, FiniteSets, TLC

VARIABLES
    proc,      \* "service" | "route" | "reputation" | "component" | "apicache" |
               \* "overlap" | "scoring"
    env,       \* process.env / window: [API_KEY, CHANNEL_ID, localStorage : BOOLEAN]
    now,       \* Date.now()
    cache,     \* APICache.cache : key -> CacheEntry
    storage,   \* localStorage["youtube_api_cache"]: NoItem or key -> CacheEntry
    call,      \* the tool call in progress (its position, fetchWithRetry's loop)
    hist       \* observations of the service: last cache operation, sets since clear

vars == <<proc, env, now, cache, storage, call, hist>>

-----------------------------------------------------------------------------
(* Bounds of the model *)

\* Number of clock steps (of TickMs) a behaviour may take.
MaxTicks == 2

\* Number of top-level operations (tool calls, direct cache calls, reloads)
\* a behaviour of the service may start.
MaxOps == 2

\* The clock step: one hour, the longest configured TTL, so that an entry of
\* that TTL is read at its expiry time exactly (now = expiresAt) and after it,
\* and an entry of a shorter TTL after it.
TickMs == 60 * 60 * 1000

-----------------------------------------------------------------------------
(* JavaScript values *)

\* A capture group that took no part in a match (undefined): \d+ never
\* captures the empty string, so the empty string stands for it.
Undefined == <<>>

Max(a, b) == IF a >= b THEN a ELSE b
Min(a, b) == IF a <= b THEN a ELSE b

RECURSIVE GCD(_, _)
GCD(a, b) == IF b = 0 THEN a ELSE GCD(b, a % b)

\* Exact rationals for the code's floating-point quotients.
Rat(n, d) == LET g == GCD(n, d) IN [n |-> n \div g, d |-> d \div g]
RatInt(k) == [n |-> k, d |-> 1]
RatAdd(x, y) == Rat(x.n * y.d + y.n * x.d, x.d * y.d)
RatMul(x, y) == Rat(x.n * y.n, x.d * y.d)
RatDiv(x, y) == Rat(x.n * y.d, x.d * y.n)
RatLE(x, y) == x.n * y.d <= y.n * x.d
RatLT(x, y) == x.n * y.d < y.n * x.d
RatMin(x, y) == IF RatLE(x, y) THEN x ELSE y
RatMax(x, y) == IF RatLE(x, y) THEN y ELSE x
\* Math.round of a non-negative rational: floor(x + 1/2).
RatRound(x) == (2 * x.n + x.d) \div (2 * x.d)

-----------------------------------------------------------------------------
(* Strings as sequences of characters *)

UpperChars ==
    <<"A","B","C","D","E","F","G","H","I","J","K","L","M",
      "N","O","P","Q","R","S","T","U","V","W","X","Y","Z">>
LowerChars ==
    <<"a","b","c","d","e","f","g","h","i","j","k","l","m",
      "n","o","p","q","r","s","t","u","v","w","x","y","z">>

LowerChar(c) ==
    IF \E i \in 1..26 : UpperChars[i] = c
    THEN LowerChars[CHOOSE i \in 1..26 : UpperChars[i] = c]
    ELSE c

\* String.prototype.toLowerCase
toLowerCase(s) == [i \in 1..Len(s) |-> LowerChar(s[i])]

\* String.prototype.includes
includes(s, pat) ==
    \E i \in 1..(Len(s) - Len(pat) + 1) : SubSeq(s, i, i + Len(pat) - 1) = pat

Digits == <<"0","1","2","3","4","5","6","7","8","9">>
IsDigit(c) == \E i \in 1..10 : Digits[i] = c
DigitVal(c) == (CHOOSE i \in 1..10 : Digits[i] = c) - 1

\* parseInt of a string of decimal digits.
RECURSIVE parseInt(_)
parseInt(s) ==
    IF Len(s) = 0 THEN 0
    ELSE 10 * parseInt(SubSeq(s, 1, Len(s) - 1)) + DigitVal(s[Len(s)])

\* The length of the maximal run of digits of s that starts at position p.
RECURSIVE DigitRun(_, _)
DigitRun(s, p) ==
    IF p <= Len(s) /\ IsDigit(s[p]) THEN 1 + DigitRun(s, p + 1) ELSE 0

\* One optional group (?:(\d+)X)? of the duration pattern, tried at position p:
\* the captured digits (Undefined when the group does not take part) and the
\* position after it.
DurationGroup(s, p, unit) ==
    LET k == DigitRun(s, p) IN
    IF k > 0 /\ p + k <= Len(s) /\ s[p + k] = unit
    THEN [cap |-> SubSeq(s, p, p + k - 1), next |-> p + k + 1]
    ELSE [cap |-> Undefined, next |-> p]

\* duration.match(/PT(?:(\d+)H)?(?:(\d+)M)?(?:(\d+)S)?/): ok is FALSE (a null
\* match) when the string holds no "PT", else the three captures at the first
\* "PT".
DurationMatch(s) ==
    LET starts == {i \in 1..(Len(s) - 1) : s[i] = "P" /\ s[i + 1] = "T"} IN
    IF starts = {}
    THEN [ok |-> FALSE, h |-> Undefined, m |-> Undefined, s |-> Undefined]
    ELSE LET i == CHOOSE j \in starts : \A k \in starts : j <= k
             gh == DurationGroup(s, i + 2, "H")
             gm == DurationGroup(s, gh.next, "M")
             gs == DurationGroup(s, gm.next, "S")
         IN  [ok |-> TRUE, h |-> gh.cap, m |-> gm.cap, s |-> gs.cap]

\* parseInt(match[k] || "0")
CapInt(cap) == IF cap = Undefined THEN 0 ELSE parseInt(cap)

-----------------------------------------------------------------------------
(* services/youtube-data.ts: configuration and scoring *)

MsPerHour == 1000 * 60 * 60

\* CACHE_TTL, by cache prefix; searchVideos stores under CACHE_TTL.trendingVideos.
CACHE_TTL ==
    [channelMetrics      |-> 15 * 60 * 1000,
     videoPerformance    |-> 15 * 60 * 1000,
     trendingVideos      |-> 60 * 60 * 1000,
     performanceInsights |-> 30 * 60 * 1000]

\* CATEGORY_QUERIES[category] || category
ServiceCategories ==
    {"AI tutorials", "Coding", "Web Dev", "Career Advice", "Industry Trends"}
ServiceSearchQuery(category) ==
    CASE category = "AI tutorials"    -> "AI tutorial machine learning deep learning"
      [] category = "Coding"          -> "programming coding software development"
      [] category = "Web Dev"         -> "web development frontend backend javascript"
      [] category = "Career Advice"   -> "career advice job search interview tips"
      [] category = "Industry Trends" -> "tech trends industry insights technology news"
      [] OTHER                        -> category

\* Math.max((Date.now() - new Date(publishedAt).getTime()) / (1000*60*60), 1)
HoursOld(publishedAt, t) ==
    IF t - publishedAt <= MsPerHour THEN RatInt(1) ELSE Rat(t - publishedAt, MsPerHour)

\* A score that may be Infinity: [inf |-> TRUE] or the rational [n, d].
Finite(x) == [inf |-> FALSE, n |-> x.n, d |-> x.d]
Inf == [inf |-> TRUE, n |-> 1, d |-> 1]

calculateTrendScore(views, publishedAt, likes, t) ==
    LET viewsPerHour == RatDiv(RatInt(views), HoursOld(publishedAt, t)) IN
    IF likes = 0 THEN Finite(viewsPerHour)
    ELSE IF views = 0 THEN Inf
    ELSE Finite(RatAdd(viewsPerHour, Rat(likes * 100, views)))

\* calculateQualityScore with the sum truncated instead of rounded
calculateQualityScoreTruncated(views, likes, publishedAt, durationSeconds, t) ==
    LET likeRatio     == IF views > 0 THEN Rat(likes * 100, views) ELSE RatInt(0)
        likeScore     == RatMul(RatMin(RatDiv(likeRatio, RatInt(5)), RatInt(1)), RatInt(40))
        viewsPerHour  == RatDiv(RatInt(views), HoursOld(publishedAt, t))
        velocityScore == RatMul(RatMin(RatDiv(viewsPerHour, RatInt(500)), RatInt(1)),
                                RatInt(30))
        durationScore == IF durationSeconds >= 5 * 60 /\ durationSeconds <= 20 * 60 THEN 30
                         ELSE IF durationSeconds >= 3 * 60 /\ durationSeconds <= 40 * 60 THEN 20
                         ELSE 10
        sum           == RatAdd(RatAdd(likeScore, velocityScore), RatInt(durationScore))
    IN  sum.n \div sum.d

\* calculateQualityScore without the caps Math.min(..., 1) of its two ratios
calculateQualityScoreUncapped(views, likes, publishedAt, durationSeconds, t) ==
    LET likeRatio     == IF views > 0 THEN Rat(likes * 100, views) ELSE RatInt(0)
        likeScore     == RatMul(RatDiv(likeRatio, RatInt(5)), RatInt(40))
        viewsPerHour  == RatDiv(RatInt(views), HoursOld(publishedAt, t))
        velocityScore == RatMul(RatDiv(viewsPerHour, RatInt(500)), RatInt(30))
        durationScore == IF durationSeconds >= 5 * 60 /\ durationSeconds <= 20 * 60 THEN 30
                         ELSE IF durationSeconds >= 3 * 60 /\ durationSeconds <= 40 * 60 THEN 20
                         ELSE 10
    IN  RatRound(RatAdd(RatAdd(likeScore, velocityScore), RatInt(durationScore)))

calculateQualityScore(views, likes, publishedAt, durationSeconds, t) ==
    LET likeRatio     == IF views > 0 THEN Rat(likes * 100, views) ELSE RatInt(0)
        likeScore     == RatMul(RatMin(RatDiv(likeRatio, RatInt(5)), RatInt(1)), RatInt(40))
        viewsPerHour  == RatDiv(RatInt(views), HoursOld(publishedAt, t))
        velocityScore == RatMul(RatMin(RatDiv(viewsPerHour, RatInt(500)), RatInt(1)),
                                RatInt(30))
        \* durationMinutes = durationSeconds / 60, compared without dividing
        durationScore == IF durationSeconds >= 5 * 60 /\ durationSeconds <= 20 * 60 THEN 30
                         ELSE IF durationSeconds >= 3 * 60 /\ durationSeconds <= 40 * 60 THEN 20
                         ELSE 10
    IN  RatRound(RatAdd(RatAdd(likeScore, velocityScore), RatInt(durationScore)))

\* `${title} ${tags.join(" ")}`
RECURSIVE JoinWithSpace(_)
JoinWithSpace(tags) ==
    IF Len(tags) = 0 THEN <<>>
    ELSE IF Len(tags) = 1 THEN tags[1]
    ELSE tags[1] \o <<" ">> \o JoinWithSpace(Tail(tags))

TitleAndTags(title, tags) == title \o <<" ">> \o JoinWithSpace(tags)

\* A categorizeVideo that tests the career keywords before the AI keywords.
ServiceCategorizeVideoCareerFirst(title, tags) ==
    LET text == toLowerCase(TitleAndTags(title, tags)) IN
    IF \/ includes(text, <<"c","a","r","e","e","r">>)
       \/ includes(text, <<"i","n","t","e","r","v","i","e","w">>)
       \/ includes(text, <<"j","o","b">>)
       \/ includes(text, <<"s","a","l","a","r","y">>)
    THEN "Career Advice"
    ELSE IF \/ includes(text, <<"a","i">>)
            \/ includes(text, <<"m","a","c","h","i","n","e"," ","l","e","a","r","n","i","n","g">>)
            \/ includes(text, <<"g","p","t">>)
            \/ includes(text, <<"l","l","m">>)
    THEN "AI tutorials"
    ELSE IF \/ includes(text, <<"r","e","a","c","t">>)
            \/ includes(text, <<"n","e","x","t">>)
            \/ includes(text, <<"w","e","b">>)
            \/ includes(text, <<"f","r","o","n","t","e","n","d">>)
            \/ includes(text, <<"c","s","s">>)
    THEN "Web Dev"
    ELSE IF \/ includes(text, <<"c","o","d","e">>)
            \/ includes(text, <<"p","r","o","g","r","a","m","m","i","n","g">>)
            \/ includes(text, <<"a","l","g","o","r","i","t","h","m">>)
            \/ includes(text, <<"t","u","t","o","r","i","a","l">>)
    THEN "Coding"
    ELSE "Industry Trends"

\* categorizeVideo of youtube-data.ts
ServiceCategorizeVideo(title, tags) ==
    LET text == toLowerCase(TitleAndTags(title, tags)) IN
    IF \/ includes(text, <<"a","i">>)
       \/ includes(text, <<"m","a","c","h","i","n","e"," ","l","e","a","r","n","i","n","g">>)
       \/ includes(text, <<"g","p","t">>)
       \/ includes(text, <<"l","l","m">>)
    THEN "AI tutorials"
    ELSE IF \/ includes(text, <<"c","a","r","e","e","r">>)
            \/ includes(text, <<"i","n","t","e","r","v","i","e","w">>)
            \/ includes(text, <<"j","o","b">>)
            \/ includes(text, <<"s","a","l","a","r","y">>)
    THEN "Career Advice"
    ELSE IF \/ includes(text, <<"r","e","a","c","t">>)
            \/ includes(text, <<"n","e","x","t">>)
            \/ includes(text, <<"w","e","b">>)
            \/ includes(text, <<"f","r","o","n","t","e","n","d">>)
            \/ includes(text, <<"c","s","s">>)
    THEN "Web Dev"
    ELSE IF \/ includes(text, <<"c","o","d","e">>)
            \/ includes(text, <<"p","r","o","g","r","a","m","m","i","n","g">>)
            \/ includes(text, <<"a","l","g","o","r","i","t","h","m">>)
            \/ includes(text, <<"t","u","t","o","r","i","a","l">>)
    THEN "Coding"
    ELSE "Industry Trends"

\* The shorts markers every variant of isShort tests.
HasShortsMarker(title, tags) ==
    \/ includes(toLowerCase(title), <<"#","s","h","o","r","t","s">>)
    \/ includes(toLowerCase(title), <<"#","s","h","o","r","t">>)
    \/ \E k \in 1..Len(tags) :
          \/ toLowerCase(tags[k]) = <<"s","h","o","r","t","s">>
          \/ toLowerCase(tags[k]) = <<"#","s","h","o","r","t","s">>

\* h * 3600 + m * 60 + s of a match (0 for every group when there is none)
MatchSeconds(m) == CapInt(m.h) * 3600 + CapInt(m.m) * 60 + CapInt(m.s)

\* isShort of getTrendingVideos and isShortVideo of searchVideos: the duration
\* is tested only when the pattern matches.
ServiceIsShort(item) ==
    \/ HasShortsMarker(item.title, item.tags)
    \/ LET match == DurationMatch(item.duration) IN
       match.ok /\ MatchSeconds(match) <= 60

\* String(n).padStart(2, "0") as the pair of its digits, for n < 100
PadStart2(n) == IF n < 10 THEN <<0, n>> ELSE <<n \div 10, n % 10>>

\* The human-readable duration: h:mm:ss when h > 0, else m:ss (the separators
\* are left out, the fields kept).
FormatDuration(m) ==
    LET h == CapInt(m.h)
        mi == CapInt(m.m)
        se == CapInt(m.s)
    IN  IF h > 0 THEN <<h>> \o PadStart2(mi) \o PadStart2(se)
        ELSE <<mi>> \o PadStart2(se)

-----------------------------------------------------------------------------
(* Arrays *)

\* Array.prototype.filter
Filter(seq, Keep(_)) ==
    LET F[i \in 0..Len(seq)] ==
            IF i = 0 THEN <<>>
            ELSE F[i - 1] \o (IF Keep(seq[i]) THEN <<seq[i]>> ELSE <<>>)
    IN  F[Len(seq)]

\* x placed into the sorted sequence before the first element that the
\* comparator puts after it.
InsertSorted(sorted, x, After(_, _)) ==
    LET later == {j \in 1..Len(sorted) : After(sorted[j], x)}
        pos   == IF later = {} THEN Len(sorted) + 1
                 ELSE CHOOSE j \in later : \A k \in later : j <= k
    IN  SubSeq(sorted, 1, pos - 1) \o <<x>> \o SubSeq(sorted, pos, Len(sorted))

\* Array.prototype.sort, which is stable: After(a, b) is "the comparator is
\* positive on (a, b)", so elements it does not order keep their order.
StableSort(seq, After(_, _)) ==
    LET S[i \in 0..Len(seq)] ==
            IF i = 0 THEN <<>> ELSE InsertSorted(S[i - 1], seq[i], After)
    IN  S[Len(seq)]

\* Array.prototype.slice(0, limit)
Slice(seq, limit) == SubSeq(seq, 1, Min(Len(seq), limit))

Range(seq) == {seq[i] : i \in 1..Len(seq)}

RECURSIVE SumSeq(_)
SumSeq(seq) == IF Len(seq) = 0 THEN 0 ELSE Head(seq) + SumSeq(Tail(seq))

-----------------------------------------------------------------------------
(* Upstream responses of the YouTube Data API, as the service reads them *)

Str_AI_News   == <<"A","I"," ","N","e","w","s">>
Str_Web_code  == <<"W","e","b"," ","c","o","d","e">>
Str_Fun_Short == <<"F","u","n"," ","#","S","h","o","r","t","s">>
Str_Job_tips  == <<"J","o","b"," ","t","i","p","s">>
Str_Live      == <<"L","i","v","e">>
Str_css       == <<"c","s","s">>
Str_PT10M     == <<"P","T","1","0","M">>
Str_PT4M13S   == <<"P","T","4","M","1","3","S">>
Str_PT5M      == <<"P","T","5","M">>
Str_PT45S     == <<"P","T","4","5","S">>
Str_P1DT2H    == <<"P","1","D","T","2","H">>
Str_P0D       == <<"P","0","D">>

\* An item of a videos.list / search.list / channels.list response.  A count is
\* the string the API sends, Undefined when the field is missing.
Item(id, title, tags, duration, viewCount, likeCount, publishedAt) ==
    [id |-> id, title |-> title, tags |-> tags, duration |-> duration,
     viewCount |-> viewCount, likeCount |-> likeCount,
     subscriberCount |-> Undefined, publishedAt |-> publishedAt]

ItemA == Item("a", Str_AI_News, <<>>, Str_PT10M, <<"1","0","0","0">>, <<"5","0">>,
              0 - 2 * MsPerHour)
ItemB == Item("b", Str_Web_code, <<Str_css>>, Str_PT4M13S, <<"4","0","0">>, Undefined,
              0 - MsPerHour)
ItemC == Item("c", Str_Fun_Short, <<>>, Str_PT5M, <<"9","0","0">>, <<"9">>, 0 - MsPerHour)
ItemD == Item("d", Str_Job_tips, <<>>, Str_PT45S, <<"8","0","0">>, <<"8">>, 0 - MsPerHour)
ItemE == Item("e", Str_Live, <<>>, Str_P1DT2H, <<"6","0","0">>, <<"6">>, 0 - 4 * MsPerHour)
ItemF == Item("f", Str_Live, <<>>, Str_PT10M, <<"0">>, <<"3">>, 0 - MsPerHour)
\* A live broadcast: the API reports its duration as P0D.
ItemW == Item("w", Str_Live, <<>>, Str_P0D, <<"7","0","0","0">>, <<"7","0">>,
              0 - MsPerHour)
\* The video of ItemA as a later call reports it: more views by then.
ItemV == Item("a", Str_AI_News, <<>>, Str_PT10M, <<"2","0","0","0">>, <<"5","0">>,
              0 - 2 * MsPerHour)

\* A parsed response body: parsed is FALSE when response.json() throws,
\* hasItems is FALSE when the body has no items field.
Body(items) == [parsed |-> TRUE, hasItems |-> TRUE, items |-> items]
BodyNoItems == [parsed |-> TRUE, hasItems |-> FALSE, items |-> <<>>]
BodyMalformed == [parsed |-> FALSE, hasItems |-> FALSE, items |-> <<>>]

\* The bodies a list call (search.list, channels.list) answers with.
ListBodies == {Body(<<ItemA, ItemB>>), Body(<<>>), BodyNoItems, BodyMalformed}

\* The bodies a details call (videos.list) answers with.
DetailBodies ==
    {Body(<<ItemB, ItemC, ItemA>>), Body(<<ItemD, ItemE, ItemF, ItemA, ItemW>>),
     Body(<<>>), BodyNoItems}

\* What the service computes from one item alone: its counts, its duration, its
\* shorts test and its category.  The functions are pure, so the model
\* evaluates them once for each item the responses are made of.
ServiceFacts(item) ==
    [views    |-> CapInt(item.viewCount),
     likes    |-> CapInt(item.likeCount),
     seconds  |-> MatchSeconds(DurationMatch(item.duration)),
     duration |-> FormatDuration(DurationMatch(item.duration)),
     short    |-> ServiceIsShort(item),
     category |-> ServiceCategorizeVideo(item.title, item.tags)]

ResponseItems == <<ItemA, ItemB, ItemC, ItemD, ItemE, ItemF, ItemV, ItemW>>

ServiceFactsOfItems ==
    <<>> \o [k \in 1..Len(ResponseItems) |-> ServiceFacts(ResponseItems[k])]

ServiceFactsOf(item) ==
    ServiceFactsOfItems[CHOOSE k \in 1..Len(ResponseItems) : ResponseItems[k] = item]

\* What one fetch(url) of fetchWithRetry can meet:
\*   ok          a 2xx response
\*   quota       403 whose body lists quotaExceeded or rateLimitExceeded
\*   forbidden   403 whose JSON body lists no such reason
\*   badjson403  403 whose body is not JSON (response.json() throws)
\*   http        another non-2xx status
\*   network     fetch itself rejects
FailureKinds == {"quota", "forbidden", "badjson403", "http", "network"}

-----------------------------------------------------------------------------
(* services/youtube-data.ts: class APICache *)

EmptyMap == [k \in {} |-> 0]

\* The localStorage item "youtube_api_cache": absent, or the saved object.
NoStorage == [present |-> FALSE, map |-> EmptyMap]

\* `youtube_${prefix}_${JSON.stringify(params)}`: params is the object's
\* fields in insertion order, which is the order JSON.stringify writes them in.
getCacheKey(prefix, params) == <<"youtube", prefix, params>>

MapRemove(map, key) == [k \in DOMAIN map \ {key} |-> map[k]]
MapPut(map, key, entry) == (key :> entry) @@ map

\* JSON.stringify writes a number that is not finite as null; read back, null
\* counts as 0 in arithmetic.  The results of getTrendingVideos and of
\* searchVideos are the data with such a number, the trendScore of a video.
Null == [inf |-> FALSE, n |-> 0, d |-> 1, null |-> TRUE]
JsonNumber(x) == IF x.inf THEN Null ELSE x
VideoPrefixes == {"trendingVideos", "searchVideos"}
JsonData(key, data) ==
    IF key[2] \in VideoPrefixes
    THEN [i \in 1..Len(data) |->
             [data[i] EXCEPT !.trendScore = JsonNumber(data[i].trendScore)]]
    ELSE data

\* JSON.parse(JSON.stringify(cacheObj)): the map as the stored string holds it.
Stringified(map) ==
    [k \in DOMAIN map |-> [map[k] EXCEPT !.data = JsonData(k, map[k].data)]]

\* saveToStorage: nothing without localStorage; a setItem that throws
\* (writeOk = FALSE) is caught and leaves the stored item as it was.
saveToStorage(map, stored, writeOk) ==
    IF ~env.localStorage THEN stored
    ELSE IF writeOk THEN [present |-> TRUE, map |-> Stringified(map)]
    ELSE stored

\* loadFromStorage, run by the constructor on an empty map: the stored entries
\* that are not expired; a getItem/JSON.parse that throws (readOk = FALSE) is
\* caught and loads nothing.
loadFromStorage(stored, t, readOk) ==
    IF ~env.localStorage \/ ~readOk \/ ~stored.present THEN EmptyMap
    ELSE [k \in {x \in DOMAIN stored.map : stored.map[x].expiresAt > t} |-> stored.map[k]]

\* An expiry test that already fails at the expiry time itself.
ExpiredAtExpiry(entry, t) == t >= entry.expiresAt

\* APICache.get: the result (hit, data) and the store it leaves.
Expired(entry, t) == t > entry.expiresAt

\* An APICache.get that, finding its key expired, sweeps out every expired
\* entry with it.
APICacheGetSweeping(map, stored, key, t, writeOk) ==
    LET fresh == [k \in {x \in DOMAIN map : ~Expired(map[x], t)} |-> map[k]] IN
    IF key \notin DOMAIN map
    THEN [hit |-> FALSE, data |-> <<>>, cache |-> map, storage |-> stored]
    ELSE IF Expired(map[key], t)
    THEN [hit |-> FALSE, data |-> <<>>, cache |-> fresh,
          storage |-> saveToStorage(fresh, stored, writeOk)]
    ELSE [hit |-> TRUE, data |-> map[key].data, cache |-> map, storage |-> stored]

APICacheGet(map, stored, key, t, writeOk) ==
    IF key \notin DOMAIN map
    THEN [hit |-> FALSE, data |-> <<>>, cache |-> map, storage |-> stored]
    ELSE IF Expired(map[key], t)
    THEN [hit |-> FALSE, data |-> <<>>, cache |-> MapRemove(map, key),
          storage |-> saveToStorage(MapRemove(map, key), stored, writeOk)]
    ELSE [hit |-> TRUE, data |-> map[key].data, cache |-> map, storage |-> stored]

\* An entry that lives an hour whatever ttl is passed.
NewEntryForAnHour(data, t, ttl) ==
    [data |-> data, timestamp |-> t, expiresAt |-> t + 60 * 60 * 1000]

\* APICache.set
NewEntry(data, t, ttl) == [data |-> data, timestamp |-> t, expiresAt |-> t + ttl]

APICacheSet(map, stored, key, data, t, ttl, writeOk) ==
    LET next == MapPut(map, key, NewEntry(data, t, ttl)) IN
    [cache |-> next, storage |-> saveToStorage(next, stored, writeOk)]

\* A clear that removes the stored item first and so, when that throws, never
\* reaches the map.
APICacheClearStorageFirst(stored, removeOk) ==
    [cache |-> IF env.localStorage /\ ~removeOk THEN cache ELSE EmptyMap,
     storage |-> IF env.localStorage /\ removeOk THEN NoStorage ELSE stored,
     threw |-> env.localStorage /\ ~removeOk]

\* APICache.clear: the map is emptied, then, with localStorage, the item is
\* removed outside any try: a removal that throws (removeOk = FALSE) leaves
\* the item and is thrown on to the caller.
APICacheClear(stored, removeOk) ==
    [cache |-> EmptyMap,
     storage |-> IF env.localStorage /\ removeOk THEN NoStorage ELSE stored,
     threw |-> env.localStorage /\ ~removeOk]

\* APICache.getStats
getStats == [entries |-> Cardinality(DOMAIN cache), keys |-> DOMAIN cache]

-----------------------------------------------------------------------------
(* Observations of the cache, for the properties *)

\* What a get saw: its key, time and result, whether the key is gone from the
\* map afterwards, and the last set of that key on this APICache object since
\* its last clear, if there was one.
GetObs(key, t, g, sets) ==
    [key |-> key, at |-> t, hit |-> g.hit, data |-> g.data,
     removed |-> key \notin DOMAIN g.cache,
     known |-> key \in DOMAIN sets,
     setData |-> IF key \in DOMAIN sets THEN sets[key].data ELSE <<>>,
     setExpiresAt |-> IF key \in DOMAIN sets THEN sets[key].expiresAt ELSE 0]

SetObs(data, t, ttl) == [data |-> data, expiresAt |-> t + ttl]

\* The sets a newly constructed APICache starts from: the entries it loaded,
\* which are what an earlier page load had set.
LoadedObs(map) ==
    [k \in DOMAIN map |-> [data |-> map[k].data, expiresAt |-> map[k].expiresAt]]

-----------------------------------------------------------------------------
(* services/youtube-data.ts: fetchWithRetry *)

\* The defaults of fetchWithRetry(url, retries = 3, backoff = 1000).
Retries == 3
BackoffMs == 1000

\* A loop body that treats every failed fetch alike, the quota answer included:
\* it sleeps and goes round until the last index.
fetchWithRetryStepRetryingAll(i, kind) ==
    IF kind = "ok" THEN "return"
    ELSE IF i = Retries - 1 THEN "throwRaw" ELSE "backoff"

\* What the loop body does at index i with one fetch that met `kind`:
\*   "return"     the response is returned
\*   "throwQuota" YouTubeAPIError(403, quotaExceeded) leaves the function
\*   "throwHttp"  YouTubeAPIError(status) leaves the function
\*   "throwRaw"   the caught error leaves the function (last index)
\*   "backoff"    the loop sleeps and goes round again
\* A YouTubeAPIError thrown inside the try is caught by the same catch, whose
\* first statement throws it on.
fetchWithRetryStep(i, kind) ==
    CASE kind = "ok"                   -> "return"
      [] kind = "quota"                -> "throwQuota"
      [] kind \in {"forbidden", "http"} -> "throwHttp"
      [] OTHER                         -> IF i = Retries - 1 THEN "throwRaw" ELSE "backoff"

RECURSIVE Pow2(_)
Pow2(k) == IF k = 0 THEN 1 ELSE 2 * Pow2(k - 1)

\* A backoff that does not grow.
BackoffDelayFlat(i) == BackoffMs

\* A backoff of twice the length.
BackoffDelayDoubled(i) == 2 * BackoffMs * Pow2(i)

\* backoff * Math.pow(2, i)
BackoffDelay(i) == BackoffMs * Pow2(i)


-----------------------------------------------------------------------------
(* services/youtube-data.ts: the tool functions *)

Tools ==
    {"getChannelMetrics", "getVideoPerformance", "getTrendingVideos",
     "getPerformanceInsights", "searchVideos"}

Prefix(tool) ==
    CASE tool = "getChannelMetrics"      -> "channelMetrics"
      [] tool = "getVideoPerformance"    -> "videoPerformance"
      [] tool = "getTrendingVideos"      -> "trendingVideos"
      [] tool = "getPerformanceInsights" -> "performanceInsights"
      [] tool = "searchVideos"           -> "searchVideos"

TTLOf(tool) ==
    CASE tool = "getChannelMetrics"      -> CACHE_TTL.channelMetrics
      [] tool = "getVideoPerformance"    -> CACHE_TTL.videoPerformance
      [] tool = "getTrendingVideos"      -> CACHE_TTL.trendingVideos
      [] tool = "getPerformanceInsights" -> CACHE_TTL.performanceInsights
      [] tool = "searchVideos"           -> CACHE_TTL.trendingVideos

\* The tools that also require NEXT_PUBLIC_YOUTUBE_CHANNEL_ID.
NeedsChannel(tool) ==
    tool \in {"getChannelMetrics", "getVideoPerformance", "getPerformanceInsights"}

\* cacheParams of each tool, after its defaults: arg is the period, the sortBy,
\* the category, the metric ("all" when none is given) or the query.
CacheParams(tool, arg, limit) ==
    CASE tool = "getChannelMetrics"      -> << <<"period", arg>> >>
      [] tool = "getVideoPerformance"    -> << <<"limit", limit>>, <<"sortBy", arg>> >>
      [] tool = "getTrendingVideos"      -> << <<"category", arg>>, <<"limit", limit>> >>
      [] tool = "getPerformanceInsights" -> << <<"metric", arg>> >>
      [] tool = "searchVideos"           ->
             << <<"query", arg>>, <<"limit", limit>>, <<"pageToken", "">> >>

ToolKey(tool, arg, limit) == getCacheKey(Prefix(tool), CacheParams(tool, arg, limit))

\* The calls the model makes.
ToolInputs ==
    {[tool |-> "getChannelMetrics",      arg |-> "30d",            limit |-> 0],
     [tool |-> "getVideoPerformance",    arg |-> "watchTime",      limit |-> 2],
     [tool |-> "getTrendingVideos",      arg |-> "AI tutorials",   limit |-> 1],
     [tool |-> "getTrendingVideos",      arg |-> "Rust",           limit |-> 1],
     [tool |-> "getPerformanceInsights", arg |-> "all",            limit |-> 0],
     [tool |-> "searchVideos",           arg |-> "tech tutorials", limit |-> 12]}

\* query is the term of getTrendingVideos' search call.
IdleCall ==
    [pc |-> "idle", tool |-> "none", arg |-> "", limit |-> 0, outer |-> "none",
     stage |-> 0, i |-> 0, attempts |-> 0, delays |-> <<>>, last |-> "none",
     carry |-> <<>>, hit |-> FALSE, keyMissing |-> FALSE, outcome |-> "none",
     error |-> "none", value |-> <<>>, wrote |-> {}, query |-> "", found |-> FALSE]

\* The call starts the fetchWithRetry of its next stage: i is the loop index,
\* attempts the fetches this fetchWithRetry has made, delays the backoffs it has
\* slept, last what its latest fetch met.
NextFetch(c, stage, carry) ==
    [c EXCEPT !.pc = "fetch", !.stage = stage, !.i = 0, !.attempts = 0,
              !.delays = <<>>, !.last = "none", !.carry = carry]

\* One more fetch(url) of the current fetchWithRetry has settled with `kind`.
Fetched(c, kind) ==
    [c EXCEPT !.attempts = c.attempts + 1, !.last = kind]

Returned(c, value) == [c EXCEPT !.pc = "done", !.outcome = "value", !.value = value]

\* The error the caller of the tool catches: "config" (a missing key or channel
\* id), "quota", "http" (YouTubeAPIError with a status), "notfound" (channel not
\* found) or "failed" (the tool's own "Failed to ..." wrapper).
Thrown(c, kind) == [c EXCEPT !.pc = "done", !.outcome = "error", !.error = kind]

MapSeq(seq, F(_)) == [k \in 1..Len(seq) |-> F(seq[k])]

ScoreLT(x, y) == ~x.inf /\ (y.inf \/ RatLT(x, y))

\* One element of getTrendingVideos' and searchVideos' result.
TrendingVideoOf(item, category, t) ==
    LET Make(facts) ==
            [videoId |-> item.id, title |-> item.title, views |-> facts.views,
             publishedAt |-> item.publishedAt, category |-> category,
             trendScore |-> calculateTrendScore(facts.views, item.publishedAt,
                                                facts.likes, t),
             qualityScore |-> calculateQualityScore(facts.views, facts.likes,
                                                    item.publishedAt, facts.seconds, t),
             tags |-> item.tags, duration |-> facts.duration]
    IN  Make(ServiceFactsOf(item))

\* trendingVideos.sort((a, b) => b.trendScore - a.trendScore)
ByTrendScore(seq) ==
    LET After(a, b) == ScoreLT(a.trendScore, b.trendScore) IN StableSort(seq, After)

\* The result of getTrendingVideos from statsData.items.
TrendingResult(items, category, limit, t) ==
    LET Keep(item) == ~ServiceFactsOf(item).short
        Make(item) == TrendingVideoOf(item, category, t)
    IN  Slice(ByTrendScore(MapSeq(Filter(items, Keep), Make)), limit)

\* The videos of searchVideos' result: each is categorised by its own text.
SearchResult(items, limit, t) ==
    LET Keep(item) == ~ServiceFactsOf(item).short
        Make(item) == TrendingVideoOf(item, ServiceFactsOf(item).category, t)
    IN  Slice(ByTrendScore(MapSeq(Filter(items, Keep), Make)), limit)

\* One element of getVideoPerformance's result.
VideoMetricOf(item) ==
    LET Make(facts) ==
            [videoId |-> item.id, title |-> item.title,
             publishedAt |-> item.publishedAt, views |-> facts.views,
             watchTimeHours |-> RatRound(Rat(facts.views * facts.seconds, 2 * 3600)),
             averageViewDuration |-> RatRound(Rat(facts.seconds, 2)),
             category |-> facts.category]
    IN  Make(ServiceFactsOf(item))

VideoPerformanceResult(items, sortBy, limit) ==
    LET ByWatchTime(a, b) == a.watchTimeHours < b.watchTimeHours
        ByDuration(a, b) == a.averageViewDuration < b.averageViewDuration
        Sorted(videos) ==
            IF sortBy = "watchTime" THEN StableSort(videos, ByWatchTime)
            ELSE IF sortBy = "duration" THEN StableSort(videos, ByDuration)
            ELSE videos
    IN  Slice(Sorted(MapSeq(items, VideoMetricOf)), limit)

\* The metrics of getChannelMetrics from the channel's statistics, the number
\* of videos of the period and their views.
MetricsResult(stats, periodViews, videoCount) ==
    << [name |-> "Total Subscribers", value |-> CapInt(stats.subscriberCount)],
       [name |-> "Total Views", value |-> CapInt(stats.viewCount)],
       [name |-> "Views (period)", value |-> periodViews],
       [name |-> "Videos Published (period)", value |-> videoCount] >>

\* The insights of getPerformanceInsights, by what they are computed from: the
\* views per category and the number of videos (no metric filter is given).
InsightsResult(videos) ==
    LET cats == {videos[k].category : k \in 1..Len(videos)}
        ViewsOf(cat) ==
            SumSeq([k \in 1..Len(videos) |->
                       IF videos[k].category = cat THEN videos[k].views ELSE 0])
    IN  << [metric |-> "Top Performing Topics",
            data |-> [cat \in cats |-> ViewsOf(cat)], count |-> Len(videos)] >>

-----------------------------------------------------------------------------
(* The service's steps.  A step threads the store and its observations through
   the cache calls it makes: w = [cache, storage, sets, gets, wrote]. *)

World == [cache |-> cache, storage |-> storage, sets |-> hist.sets, gets |-> <<>>,
          wrote |-> {}]

\* apiCache.get(prefix, params) at time t
WGet(w, key, t, writeOk) ==
    LET g == APICacheGet(w.cache, w.storage, key, t, writeOk) IN
    [hit |-> g.hit, data |-> g.data,
     w |-> [w EXCEPT !.cache = g.cache, !.storage = g.storage,
                     !.gets = Append(w.gets, GetObs(key, t, g, w.sets))]]

\* apiCache.set(prefix, params, data, ttl) at time t
WSet(w, key, data, t, ttl, writeOk) ==
    LET r == APICacheSet(w.cache, w.storage, key, data, t, ttl, writeOk) IN
    [w EXCEPT !.cache = r.cache, !.storage = r.storage,
              !.sets = MapPut(w.sets, key, SetObs(data, t, ttl)),
              !.wrote = w.wrote \cup {key}]

\* The step's outcome becomes the next state.
Commit(r, ops) ==
    /\ call' = [r.call EXCEPT !.wrote = r.call.wrote \cup r.w.wrote]
    /\ cache' = r.w.cache
    /\ storage' = r.w.storage
    /\ hist' = [ops |-> ops, gets |-> r.w.gets, sets |-> r.w.sets]

\* The tail of getPerformanceInsights once getVideoPerformance({limit: 50,
\* sortBy: "date"}) has returned `videos`.
InsightsTail(c, w, videos, t, writeOk) ==
    LET oc == [c EXCEPT !.tool = "getPerformanceInsights", !.arg = "all", !.limit = 0,
                        !.outer = "none"]
    IN  IF Len(videos) = 0 THEN [call |-> Returned(oc, <<>>), w |-> w]
        ELSE [call |-> Returned(oc, InsightsResult(videos)),
              w |-> WSet(w, ToolKey("getPerformanceInsights", "all", 0),
                         InsightsResult(videos), t,
                         TTLOf("getPerformanceInsights"), writeOk)]

\* A tool function that looks its key up but fetches whatever it finds.
InvokeResultRevalidating(in, t, writeOk) ==
    LET base == [IdleCall EXCEPT !.tool = in.tool, !.arg = in.arg, !.limit = in.limit]
        g    == WGet(World, ToolKey(in.tool, in.arg, in.limit), t, writeOk)
    IN  IF ~env.API_KEY
        THEN [call |-> Thrown([base EXCEPT !.keyMissing = TRUE], "config"), w |-> g.w]
        ELSE [call |-> NextFetch([base EXCEPT !.hit = g.hit], 1, <<>>), w |-> g.w]

\* A tool function from its first line to its first await: the cache lookup,
\* the configuration checks, and for getPerformanceInsights the same of the
\* getVideoPerformance it calls.
InvokeResult(in, t, writeOk) ==
    LET base == [IdleCall EXCEPT !.tool = in.tool, !.arg = in.arg, !.limit = in.limit]
        g    == WGet(World, ToolKey(in.tool, in.arg, in.limit), t, writeOk)
    IN  IF g.hit
        THEN [call |-> Returned([base EXCEPT !.hit = TRUE], g.data), w |-> g.w]
        ELSE IF ~env.API_KEY
        THEN [call |-> Thrown([base EXCEPT !.keyMissing = TRUE], "config"), w |-> g.w]
        ELSE IF NeedsChannel(in.tool) /\ ~env.CHANNEL_ID
        THEN [call |-> Thrown(base, "config"), w |-> g.w]
        ELSE IF in.tool = "getTrendingVideos"
        THEN [call |-> NextFetch([base EXCEPT !.query = ServiceSearchQuery(in.arg)], 1, <<>>),
              w |-> g.w]
        ELSE IF in.tool # "getPerformanceInsights"
        THEN [call |-> NextFetch(base, 1, <<>>), w |-> g.w]
        ELSE LET inner == [base EXCEPT !.tool = "getVideoPerformance", !.arg = "date",
                                       !.limit = 50, !.outer = "getPerformanceInsights"]
                 g2 == WGet(g.w, ToolKey("getVideoPerformance", "date", 50), t, writeOk)
             IN  IF g2.hit
                 THEN InsightsTail(inner, g2.w, g2.data, t, writeOk)
                 ELSE [call |-> NextFetch(inner, 1, <<>>), w |-> g2.w]

Invoke(in) ==
    /\ proc = "service"
    /\ call.pc = "idle"
    /\ hist.ops < MaxOps
    /\ Commit(InvokeResult(in, now, env.storageWritable), hist.ops + 1)
    /\ UNCHANGED <<proc, env, now>>

\* One fetch(url) of fetchWithRetry fails with `kind`.  An error that leaves
\* fetchWithRetry lands in the tool's catch: a YouTubeAPIError is thrown on,
\* anything else becomes the tool's "Failed to ..." YouTubeAPIError.
FetchFails(kind) ==
    /\ proc = "service"
    /\ call.pc = "fetch"
    /\ LET c == Fetched(call, kind)
           step == fetchWithRetryStep(call.i, kind)
       IN  call' = CASE step = "throwQuota" -> Thrown(c, "quota")
                     [] step = "throwHttp"  -> Thrown(c, "http")
                     [] step = "throwRaw"   -> Thrown(c, "failed")
                     [] step = "backoff"    -> [c EXCEPT !.pc = "backoff"]
                     [] step = "return"     -> [c EXCEPT !.pc = "fetch"]
    /\ UNCHANGED <<proc, env, now, cache, storage, hist>>

\* The setTimeout of the backoff fires and the loop goes round.
Backoff ==
    /\ proc = "service"
    /\ call.pc = "backoff"
    /\ call' = [call EXCEPT !.pc = "fetch", !.i = call.i + 1, !.last = "none",
                            !.delays = Append(call.delays, BackoffDelay(call.i))]
    /\ UNCHANGED <<proc, env, now, cache, storage, hist>>

\* A fetch(url) of the current fetchWithRetry answers 2xx: fetchWithRetry
\* returns the response and the tool reads its body.
FetchReturns(tool) ==
    /\ proc = "service"
    /\ call.pc = "fetch"
    /\ call.tool = tool
    /\ fetchWithRetryStep(call.i, "ok") = "return"

\* getChannelMetrics after a response with body b.
ChannelMetricsResult(c, b, w, t, writeOk) ==
    LET Done(stats, periodViews, videoCount) ==
            [call |-> Returned(c, MetricsResult(stats, periodViews, videoCount)),
             w |-> WSet(w, ToolKey(c.tool, c.arg, c.limit),
                        MetricsResult(stats, periodViews, videoCount), t,
                        TTLOf(c.tool), writeOk)]
        ViewsOf(item) == CapInt(item.viewCount)
    IN  IF ~b.parsed THEN [call |-> Thrown(c, "failed"), w |-> w]
        ELSE IF c.stage = 1
        THEN IF ~b.hasItems \/ Len(b.items) = 0
             THEN [call |-> Thrown(c, "notfound"), w |-> w]
             ELSE [call |-> NextFetch(c, 2, <<b.items[1]>>), w |-> w]
        ELSE IF c.stage = 2
        THEN IF b.hasItems /\ Len(b.items) > 0
             THEN [call |-> NextFetch(c, 3, c.carry \o <<b.items>>), w |-> w]
             ELSE Done(c.carry[1], 0, 0)
        ELSE Done(c.carry[1],
                  IF b.hasItems THEN SumSeq(MapSeq(b.items, ViewsOf)) ELSE 0,
                  Len(c.carry[2]))

ChannelMetricsStep(body) ==
    /\ FetchReturns("getChannelMetrics")
    /\ Commit(ChannelMetricsResult(Fetched(call, "ok"), body, World, now, env.storageWritable), hist.ops)
    /\ UNCHANGED <<proc, env, now>>

\* getVideoPerformance after a response with body b, and the tail of
\* getPerformanceInsights when that is its caller.
VideoPerformanceNext(c, b, w, t, writeOk) ==
    LET nested == c.outer = "getPerformanceInsights"
        Stored(w2, result) ==
            IF nested THEN InsightsTail(c, w2, result, t, writeOk)
            ELSE [call |-> Returned(c, result), w |-> w2]
        Done(result) ==
            Stored(WSet(w, ToolKey(c.tool, c.arg, c.limit), result, t,
                        TTLOf(c.tool), writeOk), result)
    IN  IF ~b.parsed THEN [call |-> Thrown(c, "failed"), w |-> w]
        ELSE IF c.stage = 1
        THEN IF ~b.hasItems \/ Len(b.items) = 0
             THEN IF nested THEN InsightsTail(c, w, <<>>, t, writeOk)
                  ELSE [call |-> Returned(c, <<>>), w |-> w]
             ELSE [call |-> NextFetch(c, 2, <<>>), w |-> w]
        ELSE IF ~b.hasItems THEN [call |-> Thrown(c, "failed"), w |-> w]
        ELSE Done(VideoPerformanceResult(b.items, c.arg, c.limit))

VideoPerformanceStep(body) ==
    /\ FetchReturns("getVideoPerformance")
    /\ Commit(VideoPerformanceNext(Fetched(call, "ok"), body, World, now, env.storageWritable), hist.ops)
    /\ UNCHANGED <<proc, env, now>>

\* Whether a parsed search response lists at least one item.
FoundItems(b) == b.hasItems /\ Len(b.items) > 0

\* A getTrendingVideos that goes on to the details call whatever the search
\* returned.
VideoSearchNextAlwaysDetails(c, b, w, t, writeOk) ==
    LET Done(result) ==
            [call |-> Returned(c, result),
             w |-> WSet(w, ToolKey(c.tool, c.arg, c.limit), result, t,
                        TTLOf(c.tool), writeOk)]
    IN  IF ~b.parsed THEN [call |-> Thrown(c, "failed"), w |-> w]
        ELSE IF c.stage = 1
        THEN [call |-> NextFetch([c EXCEPT !.found = FoundItems(b)], 2, <<>>), w |-> w]
        ELSE IF ~b.hasItems THEN [call |-> Thrown(c, "failed"), w |-> w]
        ELSE Done(IF c.tool = "getTrendingVideos"
                  THEN TrendingResult(b.items, c.arg, c.limit, t)
                  ELSE SearchResult(b.items, c.limit, t))

\* getTrendingVideos and searchVideos after a response with body b; found:
\* whether the search listed an item.
VideoSearchNext(c, b, w, t, writeOk) ==
    LET Done(result) ==
            [call |-> Returned(c, result),
             w |-> WSet(w, ToolKey(c.tool, c.arg, c.limit), result, t,
                        TTLOf(c.tool), writeOk)]
    IN  IF ~b.parsed THEN [call |-> Thrown(c, "failed"), w |-> w]
        ELSE IF c.stage = 1
        THEN IF ~b.hasItems \/ Len(b.items) = 0
             THEN [call |-> Returned([c EXCEPT !.found = FoundItems(b)], <<>>), w |-> w]
             ELSE [call |-> NextFetch([c EXCEPT !.found = FoundItems(b)], 2, <<>>), w |-> w]
        ELSE IF ~b.hasItems THEN [call |-> Thrown(c, "failed"), w |-> w]
        ELSE Done(IF c.tool = "getTrendingVideos"
                  THEN TrendingResult(b.items, c.arg, c.limit, t)
                  ELSE SearchResult(b.items, c.limit, t))

TrendingStep(body) ==
    /\ FetchReturns("getTrendingVideos")
    /\ Commit(VideoSearchNext(Fetched(call, "ok"), body, World, now, env.storageWritable), hist.ops)
    /\ UNCHANGED <<proc, env, now>>

SearchStep(body) ==
    /\ FetchReturns("searchVideos")
    /\ Commit(VideoSearchNext(Fetched(call, "ok"), body, World, now, env.storageWritable), hist.ops)
    /\ UNCHANGED <<proc, env, now>>

\* The caller has taken the call's result.
Collect ==
    /\ proc = "service"
    /\ call.pc = "done"
    /\ call' = IdleCall
    /\ hist' = [hist EXCEPT !.gets = <<>>]
    /\ UNCHANGED <<proc, env, now, cache, storage>>

\* clearYouTubeCache(): what clear throws reaches its caller.
ClearCache(removeOk) ==
    /\ proc = "service"
    /\ call.pc = "idle"
    /\ hist.ops < MaxOps
    /\ LET r == APICacheClear(storage, removeOk) IN
       /\ cache' = r.cache
       /\ storage' = r.storage
       /\ call' = [IdleCall EXCEPT !.error = IF r.threw THEN "storage" ELSE "none"]
    /\ hist' = [ops |-> hist.ops + 1, gets |-> <<>>, sets |-> EmptyMap]
    /\ UNCHANGED <<proc, env, now>>

\* The page is loaded again: the module is evaluated afresh and
\* `new APICache()` loads what localStorage holds.
Reload(readOk) ==
    /\ proc = "service"
    /\ call.pc = "idle"
    /\ hist.ops < MaxOps
    /\ cache' = loadFromStorage(storage, now, readOk)
    /\ call' = IdleCall
    /\ hist' = [ops |-> hist.ops + 1, gets |-> <<>>,
                sets |-> LoadedObs(loadFromStorage(storage, now, readOk))]
    /\ UNCHANGED <<proc, env, now, storage>>

\* Time passes.  A call lasts seconds and the clock steps by hours, so the
\* clock steps between calls.
Tick ==
    /\ call.pc = "idle"
    /\ now < MaxTicks * TickMs
    /\ now' = now + TickMs
    /\ UNCHANGED <<proc, env, cache, storage, call, hist>>

-----------------------------------------------------------------------------
(* Initial states *)

\* What an earlier page load with a working key may have left in localStorage:
\* a trending result stored half an hour before this one.
PriorSessionStorage ==
    [present |-> TRUE,
     map |-> (ToolKey("getTrendingVideos", "AI tutorials", 1) :>
                 NewEntry(TrendingResult(<<ItemB, ItemC, ItemA>>, "AI tutorials", 1,
                                         0 - (TickMs \div 2)),
                          0 - (TickMs \div 2), TTLOf("getTrendingVideos")))]

\* Or a search result stored half an hour before this page load, one of its
\* videos reported without views but with likes, as the stored string holds it.
PriorSearchStorage ==
    [present |-> TRUE,
     map |-> Stringified(
                ToolKey("searchVideos", "tech tutorials", 12) :>
                   NewEntry(SearchResult(<<ItemD, ItemE, ItemF, ItemA, ItemW>>, 12,
                                         0 - (TickMs \div 2)),
                            0 - (TickMs \div 2), TTLOf("searchVideos")))]

\* The environments: everything configured; no API key; no channel id; no
\* localStorage (server-side rendering); a localStorage whose setItem throws
\* (its quota is used up).
Env(key, channel, ls, writable) ==
    [API_KEY |-> key, CHANNEL_ID |-> channel, localStorage |-> ls,
     storageWritable |-> writable]

Envs ==
    {Env(TRUE, TRUE, TRUE, TRUE), Env(FALSE, TRUE, TRUE, TRUE),
     Env(TRUE, FALSE, TRUE, TRUE), Env(TRUE, TRUE, FALSE, FALSE),
     Env(TRUE, TRUE, TRUE, FALSE)}

\* The environments in which an earlier page load may have used the service.
PriorEnvs == {e \in Envs : e.localStorage /\ e.CHANNEL_ID}

InitService ==
    /\ proc = "service"
    /\ env \in Envs
    /\ now = 0
    /\ storage \in (IF env \in PriorEnvs
                    THEN {NoStorage, PriorSessionStorage, PriorSearchStorage}
                    ELSE {NoStorage})
    /\ cache = loadFromStorage(storage, now, TRUE)
    /\ call = IdleCall
    /\ hist = [ops |-> 0, gets |-> <<>>, sets |-> LoadedObs(cache)]

\* The bodies the current stage's call can answer with: videos.list in the
\* second stage of a video tool, a list call otherwise.
StageBodies ==
    IF proc # "service" THEN {}
    ELSE IF call.stage = 1 \/ call.tool = "getChannelMetrics" THEN ListBodies
    ELSE DetailBodies

NextService ==
    \/ \E in \in ToolInputs : Invoke(in)
    \/ \E kind \in FailureKinds : FetchFails(kind)
    \/ Backoff
    \/ \E body \in StageBodies : ChannelMetricsStep(body)
    \/ \E body \in StageBodies : VideoPerformanceStep(body)
    \/ \E body \in StageBodies : TrendingStep(body)
    \/ \E body \in StageBodies : SearchStep(body)
    \/ Collect
    \/ \E removeOk \in BOOLEAN : ClearCache(removeOk)
    \/ \E readOk \in BOOLEAN : Reload(readOk)
    \/ Tick

SpecService == InitService /\ [][NextService]_vars

-----------------------------------------------------------------------------
(* app/api/youtube/trending/route.ts: configuration and pure functions *)

\* How many of SEARCH_QUERIES the model fans out over.
MaxQueries == 2

CACHE_TTL_MS == 60 * 60 * 1000
MIN_VIEWS == 5000
MIN_DURATION_SECONDS == 3 * 60

\* searchParams.get("category") when the parameter is absent or empty: both
\* are falsy.
NoCategory == ""

\* parseDurationSeconds: 0 when the pattern does not match.
parseDurationSeconds(duration) ==
    LET match == DurationMatch(duration) IN
    IF ~match.ok THEN 0 ELSE MatchSeconds(match)

\* isShort of route.ts: the duration is parseDurationSeconds, so a duration
\* that does not match counts as 0 seconds.
RouteIsShort(item) ==
    \/ HasShortsMarker(item.title, item.tags)
    \/ parseDurationSeconds(item.duration) <= 60

getRating(views) ==
    IF views >= 500000 THEN "Viral"
    ELSE IF views >= 100000 THEN "Excellent"
    ELSE IF views >= 50000 THEN "Great"
    ELSE "Good"

\* categorizeVideo of route.ts
RouteCategorizeVideo(title, tags) ==
    LET text == toLowerCase(TitleAndTags(title, tags)) IN
    IF \/ includes(text, <<"r","e","a","c","t">>)
       \/ includes(text, <<"n","e","x","t",".","j","s">>)
       \/ includes(text, <<"n","e","x","t","j","s">>)
    THEN "React"
    ELSE IF \/ includes(text, <<"a","i">>)
            \/ includes(text, <<"m","a","c","h","i","n","e"," ","l","e","a","r","n","i","n","g">>)
            \/ includes(text, <<"g","p","t">>)
            \/ includes(text, <<"l","l","m">>)
            \/ includes(text, <<"d","e","e","p"," ","l","e","a","r","n","i","n","g">>)
    THEN "AI & ML"
    ELSE IF \/ includes(text, <<"c","a","r","e","e","r">>)
            \/ includes(text, <<"i","n","t","e","r","v","i","e","w">>)
            \/ includes(text, <<"j","o","b">>)
            \/ includes(text, <<"s","a","l","a","r","y">>)
    THEN "Tech Careers"
    ELSE IF \/ includes(text, <<"j","a","v","a","s","c","r","i","p","t">>)
            \/ includes(text, <<"t","y","p","e","s","c","r","i","p","t">>)
            \/ includes(text, <<"n","o","d","e">>)
    THEN "JavaScript"
    ELSE IF \/ includes(text, <<"o","p","e","n"," ","s","o","u","r","c","e">>)
            \/ includes(text, <<"g","i","t","h","u","b">>)
            \/ includes(text, <<"c","o","n","t","r","i","b","u","t","e">>)
    THEN "Open Source"
    ELSE "Web Dev"

\* The items the videos.list responses to the route are made of.
Str_React_hooks == <<"R","e","a","c","t"," ","h","o","o","k","s">>
Str_CSS_grid    == <<"C","S","S"," ","g","r","i","d">>
Str_Shorts      == <<"S","h","o","r","t","s">>
Str_PT12M       == <<"P","T","1","2","M">>
Str_PT2M59S     == <<"P","T","2","M","5","9","S">>

ItemG == Item("g", Str_React_hooks, <<>>, Str_PT12M, <<"9","0","0","0">>, <<"9","0">>,
              0 - 2 * MsPerHour)
ItemH == Item("h", Str_AI_News, <<>>, Str_PT5M, <<"7","0","0","0">>, Undefined,
              0 - MsPerHour)
ItemI == Item("i", Str_Web_code, <<>>, Str_PT10M, <<"4","9","9","9">>, <<"9">>,
              0 - MsPerHour)
\* the id of ItemG again, from another query, with other statistics
ItemJ == Item("g", Str_CSS_grid, <<>>, Str_PT10M, <<"2","0","0","0","0">>, <<"9">>,
              0 - MsPerHour)
ItemK == Item("k", Str_Web_code, <<Str_Shorts>>, Str_PT10M, <<"8","0","0","0">>, <<"9">>,
              0 - MsPerHour)
ItemL == Item("l", Str_Web_code, <<>>, Str_PT2M59S, <<"8","0","0","0">>, <<"9">>,
              0 - MsPerHour)
ItemM == Item("m", Str_Job_tips, <<>>, Str_PT4M13S, <<"9","0","0","0">>, <<"9">>,
              0 - MsPerHour)
ItemN == Item("n", Str_Live, <<>>, Str_P1DT2H, <<"9","9","9","9">>, <<"9">>,
              0 - MsPerHour)

RouteDetailBodies ==
    {Body(<<ItemG, ItemI, ItemK>>), Body(<<ItemH, ItemJ>>),
     Body(<<ItemL, ItemN, ItemM>>), BodyNoItems}

\* What the route computes from one item alone, evaluated once for each item.
RouteFacts(item) ==
    [views    |-> CapInt(item.viewCount),
     seconds  |-> parseDurationSeconds(item.duration),
     short    |-> RouteIsShort(item),
     category |-> RouteCategorizeVideo(item.title, item.tags)]

RouteItems == <<ItemG, ItemH, ItemI, ItemJ, ItemK, ItemL, ItemM, ItemN>>

RouteFactsOfItems ==
    <<RouteFacts(ItemG), RouteFacts(ItemH), RouteFacts(ItemI), RouteFacts(ItemJ),
      RouteFacts(ItemK), RouteFacts(ItemL), RouteFacts(ItemM), RouteFacts(ItemN)>>

RouteFactsOf(item) ==
    RouteFactsOfItems[CHOOSE k \in 1..Len(RouteItems) : RouteItems[k] = item]

\* One element of fetchVideosForQuery's result.  The display strings (views,
\* timeAgo, thumbnail, channel) are left out; durationSeconds is the
\* _durationSeconds that fetchTrendingVideos strips.
RouteVideoOf(item) ==
    LET facts == RouteFactsOf(item) IN
    [videoId |-> item.id, title |-> item.title, viewCount |-> facts.views,
     category |-> facts.category, rank |-> 0, rating |-> getRating(facts.views),
     durationSeconds |-> facts.seconds]

\* The videos fetchVideosForQuery returns from detailsData.items.
QueryVideos(items) ==
    LET NotShort(item) == ~RouteFactsOf(item).short
        Passes(v) == v.viewCount >= MIN_VIEWS /\ v.durationSeconds >= MIN_DURATION_SECONDS
    IN  Filter(MapSeq(Filter(items, NotShort), RouteVideoOf), Passes)

-----------------------------------------------------------------------------
(* route.ts: the server-side cache, fetchVideosForQuery, fetchTrendingVideos *)

\* getCached: the data (hit) or null, and the Map it leaves.
getCached(map, key, t) ==
    IF key \notin DOMAIN map
    THEN [hit |-> FALSE, data |-> <<>>, cache |-> map]
    ELSE IF t - map[key].timestamp > CACHE_TTL_MS
    THEN [hit |-> FALSE, data |-> <<>>, cache |-> MapRemove(map, key)]
    ELSE [hit |-> TRUE, data |-> map[key].data, cache |-> map]

\* A setCache that leaves an entry that is already there.
setCacheKeepingFirst(map, key, data, t) ==
    IF key \in DOMAIN map THEN map ELSE MapPut(map, key, [data |-> data, timestamp |-> t])

setCache(map, key, data, t) == MapPut(map, key, [data |-> data, timestamp |-> t])

\* What a plain fetch(url) of the route can meet: a 2xx response with a body, a
\* 403 whose body gives the reason quotaExceeded ("403"), a 403 whose body
\* gives another reason ("forbidden"), another non-2xx status, or a rejection
\* of fetch itself.
Response(kind, body) == [kind |-> kind, body |-> body]
SearchResponses ==
    {Response("ok", Body(<<ItemG>>)), Response("ok", BodyNoItems),
     Response("ok", BodyMalformed), Response("403", BodyNoItems),
     Response("forbidden", BodyNoItems),
     Response("http", BodyNoItems), Response("network", BodyNoItems)}
DetailsResponses ==
    {Response("ok", b) : b \in RouteDetailBodies} \cup
    {Response("403", BodyNoItems), Response("http", BodyNoItems),
     Response("network", BodyNoItems)}

Fulfilled(videos) == [status |-> "fulfilled", reason |-> "none", value |-> videos]
Rejected(reason) == [status |-> "rejected", reason |-> reason, value |-> <<>>]
Pending == [status |-> "pending", reason |-> "none", value |-> <<>>]

\* How one response ends fetchVideosForQuery, if it does: a 403 throws
\* YouTubeQuotaExceededError whatever its body says (the body is not read),
\* another non-2xx status returns [], a rejected fetch or a body that is not
\* JSON rejects the promise with that error.
EndsQuery(res) ==
    CASE res.kind \in {"403", "forbidden"} -> Rejected("quota")
      [] res.kind = "http"    -> Fulfilled(<<>>)
      [] res.kind = "network" -> Rejected("network")
      [] ~res.body.parsed     -> Rejected("malformed")
      [] OTHER                -> Pending

\* SEARCH_QUERIES: the terms fetchTrendingVideos fans out over, whatever the
\* request asks for.
SEARCH_QUERIES ==
    <<"react tutorial 2025", "next.js web development", "javascript frontend development",
      "web development tutorial", "react hooks components", "CSS tailwind web design",
      "typescript web development", "node.js backend tutorial", "frontend developer tips",
      "HTML CSS JavaScript project">>

\* The upstream calls one branch has issued and how each ended ("none": the
\* call was not issued); channelIds are the ids a channels call asked for;
\* query is the term the search call was made with.
NoCalls ==
    [query |-> "", search |-> "none", details |-> "none", channels |-> "none",
     channelIds |-> {}]

\* How a call ended for the branch: its failure kind, "malformed" for a body
\* that is not JSON, "empty" for a search that found nothing, else "ok".
SearchOutcome(res) ==
    IF res.kind # "ok" THEN res.kind
    ELSE IF ~res.body.parsed THEN "malformed"
    ELSE IF ~res.body.hasItems \/ Len(res.body.items) = 0 THEN "empty"
    ELSE "ok"

DetailsOutcome(res) ==
    IF res.kind # "ok" THEN res.kind
    ELSE IF ~res.body.parsed THEN "malformed"
    ELSE "ok"

\* The calls of one fetchVideosForQuery: the search, and the details call when
\* the search found items.
QueryCalls(search, details) ==
    IF SearchOutcome(search) # "ok" THEN [NoCalls EXCEPT !.search = SearchOutcome(search)]
    ELSE [NoCalls EXCEPT !.search = "ok", !.details = DetailsOutcome(details)]

\* fetchVideosForQuery as a function of its two responses; the details call is
\* made only when the search found items.
fetchVideosForQuery(search, details) ==
    IF EndsQuery(search).status # "pending" THEN EndsQuery(search)
    ELSE IF ~search.body.hasItems \/ Len(search.body.items) = 0 THEN Fulfilled(<<>>)
    ELSE IF EndsQuery(details).status # "pending" THEN EndsQuery(details)
    ELSE IF ~details.body.hasItems THEN Fulfilled(<<>>)
    ELSE Fulfilled(QueryVideos(details.body.items))

\* A filter on seen ids that lets every element through.
DedupeFirstSeenKeepingAll(seq) == seq

\* The elements of seq whose videoId no earlier element has.
DedupeFirstSeen(seq) ==
    LET Seen(i) == {seq[j].videoId : j \in 1..(i - 1)}
        D[i \in 0..Len(seq)] ==
            IF i = 0 THEN <<>>
            ELSE D[i - 1] \o (IF seq[i].videoId \in Seen(i) THEN <<>> ELSE <<seq[i]>>)
    IN  D[Len(seq)]

\* allVideos.sort((a, b) => b.viewCount - a.viewCount)
ByViewCount(seq) ==
    LET After(a, b) == a.viewCount < b.viewCount IN StableSort(seq, After)

\* .map(({ _durationSeconds, ...rest }, i) => ({ ...rest, rank: i + 1 }))
Ranked(seq) ==
    [i \in 1..Len(seq) |->
        [videoId |-> seq[i].videoId, title |-> seq[i].title,
         viewCount |-> seq[i].viewCount, category |-> seq[i].category,
         rank |-> i, rating |-> seq[i].rating]]

RECURSIVE Flatten(_)
Flatten(seqs) == IF Len(seqs) = 0 THEN <<>> ELSE Head(seqs) \o Flatten(Tail(seqs))

\* A join that skips every rejected branch, the quota rejection included.
fetchTrendingVideosSkippingRejections(results) ==
    LET Value(r) == IF r.status = "rejected" THEN <<>> ELSE r.value IN
    [threw |-> "none",
     videos |-> Ranked(ByViewCount(DedupeFirstSeen(Flatten(MapSeq(results, Value)))))]

\* fetchTrendingVideos from the settled results of its branches: a quota
\* rejection is thrown on, another rejection is skipped.
fetchTrendingVideos(results) ==
    IF \E i \in 1..Len(results) :
          results[i].status = "rejected" /\ results[i].reason = "quota"
    THEN [threw |-> "quota", videos |-> <<>>]
    ELSE LET Value(r) == IF r.status = "rejected" THEN <<>> ELSE r.value IN
         [threw |-> "none",
          videos |-> Ranked(ByViewCount(DedupeFirstSeen(Flatten(MapSeq(results, Value)))))]

\* services/mock-trending-data.ts is not among the files: a fixed array of
\* records of the live shape, ranked, over the categories of the dashboard.
MOCK_TRENDING_VIDEOS ==
    << [videoId |-> "mock1", title |-> Str_React_hooks, viewCount |-> 900000,
        category |-> "React", rank |-> 1, rating |-> "Viral"],
       [videoId |-> "mock2", title |-> Str_AI_News, viewCount |-> 400000,
        category |-> "AI & ML", rank |-> 2, rating |-> "Excellent"],
       [videoId |-> "mock3", title |-> Str_CSS_grid, viewCount |-> 60000,
        category |-> "Web Dev", rank |-> 3, rating |-> "Great"] >>

\* A category filter that lets every record through.
ByCategoryKeepingAll(videos, category) == videos

\* allVideos.filter((v) => v.category === category), or all of them
ByCategory(videos, category) ==
    LET Has(v) == v.category = category IN
    IF category = NoCategory THEN videos ELSE Filter(videos, Has)

-----------------------------------------------------------------------------
(* components/TrendingTechVideos.tsx: the client's local cache *)

\* The localStorage item "trending_videos_cache": absent, or {data, timestamp}.
NoLocalCache == [present |-> FALSE, data |-> <<>>, timestamp |-> 0]

\* loadFromCache: found is FALSE for null (no item, an expired item, which is
\* removed, or a getItem/JSON.parse that throws).
loadFromCache(stored, t, readOk) ==
    IF ~readOk \/ ~stored.present
    THEN [found |-> FALSE, data |-> <<>>, storage |-> stored]
    ELSE IF t - stored.timestamp > CACHE_TTL_MS
    THEN [found |-> FALSE, data |-> <<>>, storage |-> NoLocalCache]
    ELSE [found |-> TRUE, data |-> stored.data, storage |-> stored]

\* saveToCache: a setItem that throws is ignored.
saveToCache(stored, data, t, writeOk) ==
    IF writeOk THEN [present |-> TRUE, data |-> data, timestamp |-> t] ELSE stored

-----------------------------------------------------------------------------
(* route.ts GET and the client's fetchVideos, step by step.  call is the request
   being served: where it came from, the settled branches of its fan-out, the
   response, and what it did to the caches. *)

RouteIdle ==
    [pc |-> "idle", origin |-> "none", category |-> NoCategory, results |-> <<>>,
     fetched |-> FALSE, status |-> 0, body |-> <<>>, error |-> "none",
     keyMissing |-> FALSE, hit |-> FALSE, fallback |-> FALSE, live |-> FALSE,
     wrote |-> {}, localFound |-> FALSE, localLen |-> 0, localHit |-> FALSE,
     routeCalled |-> FALSE, calls |-> <<>>,
     saved |-> FALSE, shown |-> <<>>, shownError |-> "none"]

\* What getCached saw, with the last setCache of that key in this process.
RouteGetObs(key, t, g, sets) ==
    [key |-> key, at |-> t, hit |-> g.hit, data |-> g.data,
     removed |-> key \notin DOMAIN g.cache,
     known |-> key \in DOMAIN sets,
     setData |-> IF key \in DOMAIN sets THEN sets[key].data ELSE <<>>,
     setExpiresAt |-> IF key \in DOMAIN sets THEN sets[key].expiresAt ELSE 0]

RouteSetObs(data, t) == [data |-> data, expiresAt |-> t + CACHE_TTL_MS]

\* NextResponse.json(body, {status}): the handler is done; a client that asked
\* is still to read the response.
Respond(c, status, body, error) ==
    [c EXCEPT !.pc = IF c.origin = "client" THEN "responded" ELSE "done",
              !.status = status, !.body = body, !.error = error]

\* A request for /api/youtube/trending?category=... arrives from elsewhere.
DirectRequest(category) ==
    /\ proc = "route"
    /\ call.pc = "idle"
    /\ hist.ops < MaxOps
    /\ call' = [RouteIdle EXCEPT !.pc = "request", !.origin = "direct",
                                 !.category = category]
    /\ hist' = [hist EXCEPT !.ops = hist.ops + 1, !.gets = <<>>]
    /\ UNCHANGED <<proc, env, now, cache, storage>>

\* The component mounts and runs fetchVideos up to its await: a non-empty
\* cached array is shown, otherwise /api/youtube/trending is fetched.
ClientMount(readOk) ==
    /\ proc = "route"
    /\ call.pc = "idle"
    /\ hist.ops < MaxOps
    /\ LET l == loadFromCache(storage, now, readOk) IN
       /\ storage' = l.storage
       /\ call' = IF l.found /\ Len(l.data) > 0
                  THEN [RouteIdle EXCEPT !.pc = "done", !.origin = "client",
                                         !.localFound = TRUE, !.localLen = Len(l.data),
                                         !.localHit = TRUE, !.shown = l.data]
                  ELSE [RouteIdle EXCEPT !.pc = "request", !.origin = "client",
                                         !.localFound = l.found,
                                         !.localLen = Len(l.data), !.routeCalled = TRUE]
    /\ hist' = [hist EXCEPT !.ops = hist.ops + 1, !.gets = <<>>]
    /\ UNCHANGED <<proc, env, now, cache>>

\* GET up to its first await: the key check, the cache lookup, and the start
\* of fetchTrendingVideos, whose map issues every branch's search call.
GET ==
    /\ proc = "route"
    /\ call.pc = "request"
    /\ LET cacheKey == IF call.category = NoCategory THEN "all" ELSE call.category
           g == getCached(cache, cacheKey, now)
       IN  IF ~env.API_KEY
           THEN /\ call' = Respond([call EXCEPT !.keyMissing = TRUE], 500, <<>>, "config")
                /\ UNCHANGED <<cache, hist>>
           ELSE /\ cache' = g.cache
                /\ hist' = [hist EXCEPT
                              !.gets = <<RouteGetObs(cacheKey, now, g, hist.sets)>>]
                /\ call' = IF g.hit
                           THEN Respond([call EXCEPT !.hit = TRUE], 200, g.data, "none")
                           ELSE [call EXCEPT !.pc = "fanout", !.fetched = TRUE,
                                             !.results = [q \in 1..MaxQueries |-> Pending],
                                             !.calls = [q \in 1..MaxQueries |-> NoCalls]]
    /\ UNCHANGED <<proc, env, now, storage>>

\* The branch of query q settles, given what its calls met.
BranchSettles(q, search, details) ==
    /\ proc = "route"
    /\ call.pc = "fanout"
    /\ call.results[q].status = "pending"
    /\ call' = [call EXCEPT !.results[q] = fetchVideosForQuery(search, details),
                            !.calls[q] = [QueryCalls(search, details) EXCEPT
                                            !.query = SEARCH_QUERIES[q]]]
    /\ UNCHANGED <<proc, env, now, cache, storage, hist>>

\* A join that answers a quota signal with the records of the branches that
\* succeeded followed by the fallback records.
JoinMixingFallback ==
    /\ proc = "route"
    /\ call.pc = "fanout"
    /\ \A q \in 1..MaxQueries : call.results[q].status # "pending"
    /\ LET r == fetchTrendingVideos(call.results)
           kept == fetchTrendingVideosSkippingRejections(call.results).videos
           result == ByCategory(r.videos, call.category)
           all == setCache(cache, "all", r.videos, now)
           allSets == MapPut(hist.sets, "all", RouteSetObs(r.videos, now))
       IN  IF r.threw = "quota"
           THEN /\ call' = Respond([call EXCEPT !.fallback = TRUE], 200,
                                   ByCategory(kept \o MOCK_TRENDING_VIDEOS, call.category),
                                   "none")
                /\ UNCHANGED <<cache, hist>>
           ELSE IF call.category = NoCategory
           THEN /\ cache' = all
                /\ hist' = [hist EXCEPT !.sets = allSets]
                /\ call' = Respond([call EXCEPT !.live = TRUE, !.wrote = {"all"}],
                                   200, result, "none")
           ELSE /\ cache' = setCache(all, call.category, result, now)
                /\ hist' = [hist EXCEPT
                              !.sets = MapPut(allSets, call.category,
                                              RouteSetObs(result, now))]
                /\ call' = Respond([call EXCEPT !.live = TRUE,
                                                !.wrote = {"all", call.category}],
                                   200, result, "none")
    /\ UNCHANGED <<proc, env, now, storage>>

\* Promise.allSettled resolves: the rest of fetchTrendingVideos and of GET.
Join ==
    /\ proc = "route"
    /\ call.pc = "fanout"
    /\ \A q \in 1..MaxQueries : call.results[q].status # "pending"
    /\ LET r == fetchTrendingVideos(call.results)
           result == ByCategory(r.videos, call.category)
           all == setCache(cache, "all", r.videos, now)
           allSets == MapPut(hist.sets, "all", RouteSetObs(r.videos, now))
       IN  IF r.threw = "quota"
           THEN /\ call' = Respond([call EXCEPT !.fallback = TRUE], 200,
                                   ByCategory(MOCK_TRENDING_VIDEOS, call.category), "none")
                /\ UNCHANGED <<cache, hist>>
           ELSE IF call.category = NoCategory
           THEN /\ cache' = all
                /\ hist' = [hist EXCEPT !.sets = allSets]
                /\ call' = Respond([call EXCEPT !.live = TRUE, !.wrote = {"all"}],
                                   200, result, "none")
           ELSE /\ cache' = setCache(all, call.category, result, now)
                /\ hist' = [hist EXCEPT
                              !.sets = MapPut(allSets, call.category,
                                              RouteSetObs(result, now))]
                /\ call' = Respond([call EXCEPT !.live = TRUE,
                                                !.wrote = {"all", call.category}],
                                   200, result, "none")
    /\ UNCHANGED <<proc, env, now, storage>>

\* The client's fetch resolves: an error status is shown as the error, a
\* 2xx body is shown and saved.
ClientReceives ==
    /\ proc = "route"
    /\ call.pc = "responded"
    /\ IF call.status # 200
       THEN /\ call' = [call EXCEPT !.pc = "done", !.shownError = call.error]
            /\ UNCHANGED storage
       ELSE /\ call' = [call EXCEPT !.pc = "done", !.shown = call.body,
                                    !.saved = env.storageWritable]
            /\ storage' = saveToCache(storage, call.body, now, env.storageWritable)
    /\ UNCHANGED <<proc, env, now, cache, hist>>

\* The request is over.
RouteCollect ==
    /\ proc \in {"route", "reputation"}
    /\ call.pc = "done"
    /\ call' = RouteIdle
    /\ hist' = [hist EXCEPT !.gets = <<>>]
    /\ UNCHANGED <<proc, env, now, cache, storage>>

\* The server process restarts: the module's Map starts empty.
Restart ==
    /\ proc \in {"route", "reputation"}
    /\ call.pc = "idle"
    /\ hist.ops < MaxOps
    /\ cache' = EmptyMap
    /\ hist' = [ops |-> hist.ops + 1, gets |-> <<>>, sets |-> EmptyMap]
    /\ UNCHANGED <<proc, env, now, storage, call>>

\* The categories requests ask for: none, two of the dashboard's, and one that
\* no table of the code lists.
RequestCategories == {NoCategory, "React", "AI & ML", "Rust"}

\* The server with or without its key, and a browser whose localStorage takes
\* writes or throws on them.
RouteEnvs ==
    {Env(TRUE, TRUE, TRUE, TRUE), Env(FALSE, TRUE, TRUE, TRUE), Env(TRUE, TRUE, TRUE, FALSE)}

InitRoute ==
    /\ proc = "route"
    /\ env \in RouteEnvs
    /\ now = 0
    /\ cache = EmptyMap
    /\ storage = NoLocalCache
    /\ call = RouteIdle
    /\ hist = [ops |-> 0, gets |-> <<>>, sets |-> EmptyMap]

NextRoute ==
    \/ \E category \in RequestCategories : DirectRequest(category)
    \/ \E readOk \in BOOLEAN : ClientMount(readOk)
    \/ GET
    \/ \E q \in 1..MaxQueries, search \in SearchResponses, details \in DetailsResponses :
          BranchSettles(q, search, details)
    \/ Join
    \/ ClientReceives
    \/ RouteCollect
    \/ Restart
    \/ Tick

SpecRoute == InitRoute /\ [][NextRoute]_vars

-----------------------------------------------------------------------------
(* The reputation-aware trending route (the second route.ts of the repository):
   pure functions *)

MIN_ENGAGEMENT_PERCENT == 1
MIN_CHANNEL_SUBSCRIBERS == 1000

\* Object.entries(CATEGORY_QUERIES), in insertion order
ReputationCategories ==
    <<"React", "AI & ML", "JavaScript", "Tech Careers", "Web Dev", "Open Source">>

\* isShort of this route: the duration is tested only when the pattern matches.
ReputationIsShort(item) ==
    \/ HasShortsMarker(item.title, item.tags)
    \/ LET match == DurationMatch(item.duration) IN
       match.ok /\ MatchSeconds(match) <= 60

\* computeQualityScore, in exact arithmetic:
\* views * ((likes + 2 * comments) / views) * depthBonus * reputationBonus
computeQualityScore(views, likes, comments, durationSeconds, subscriberCount) ==
    LET engagementRatio == IF views > 0 THEN Rat(likes + comments * 2, views) ELSE RatInt(0)
        depthBonus == IF durationSeconds >= 10 * 60 THEN Rat(3, 2)
                      ELSE IF durationSeconds >= 5 * 60 THEN Rat(6, 5) ELSE RatInt(1)
        reputationBonus == IF subscriberCount >= 100000 THEN Rat(3, 2)
                           ELSE IF subscriberCount >= 10000 THEN Rat(6, 5) ELSE RatInt(1)
    IN  RatMul(RatMul(RatMul(RatInt(views), engagementRatio), depthBonus), reputationBonus)

\* A videos.list item with its channel and comment count.
ChannelItem(item, channelId, commentCount) ==
    [id |-> item.id, title |-> item.title, tags |-> item.tags,
     duration |-> item.duration, viewCount |-> item.viewCount,
     likeCount |-> item.likeCount, commentCount |-> commentCount,
     channelId |-> channelId, publishedAt |-> item.publishedAt]

ItemP == ChannelItem(Item("g", Str_React_hooks, <<>>, Str_PT12M, <<"9","0","0","0">>,
                          <<"9","0">>, 0 - MsPerHour), "c1", <<"5">>)
ItemQ == ChannelItem(Item("h", Str_AI_News, <<>>, Str_PT5M, <<"7","0","0","0">>,
                          <<"7","0","0">>, 0 - MsPerHour), "c2", Undefined)
\* too few likes for its views
ItemR == ChannelItem(Item("r", Str_Web_code, <<>>, Str_PT10M, <<"8","0","0","0">>,
                          <<"9">>, 0 - MsPerHour), "c1", Undefined)
\* a short by its duration
ItemS == ChannelItem(Item("s", Str_Job_tips, <<>>, Str_PT45S, <<"8","0","0","0">>,
                          <<"8","0","0">>, 0 - MsPerHour), "c1", Undefined)
\* a channel below the subscriber floor
ItemT == ChannelItem(Item("t", Str_CSS_grid, <<>>, Str_PT10M, <<"8","0","0","0">>,
                          <<"8","0","0">>, 0 - MsPerHour), "c3", Undefined)
\* the id of ItemP again, with more views
ItemU == ChannelItem(Item("g", Str_React_hooks, <<>>, Str_PT10M, <<"9","5","0","0">>,
                          <<"9","5","0">>, 0 - MsPerHour), "c2", <<"1","0">>)

ReputationDetailBodies ==
    {Body(<<ItemP, ItemR, ItemS>>), Body(<<ItemQ, ItemT, ItemU>>), Body(<<ItemS>>),
     BodyNoItems}

\* The channels.list items: a channel id and its subscriberCount string.
Channel(id, subscriberCount) == [id |-> id, subscriberCount |-> subscriberCount]
ChannelsBody ==
    Body(<<Channel("c1", <<"1","5","0","0","0","0">>), Channel("c2", <<"2","0","0","0","0">>),
           Channel("c3", <<"5","0","0">>)>>)

\* getChannelSubscriberCounts after its fetch: the map of the channels asked
\* for (a response that is not ok gives the empty map).
SubscriberMap(channelIds, res) ==
    IF res.kind # "ok" \/ ~res.body.hasItems THEN EmptyMap
    ELSE LET found == {k \in 1..Len(res.body.items) : res.body.items[k].id \in channelIds}
             SubsOf(id) == LET k == CHOOSE j \in found : res.body.items[j].id = id IN
                           CapInt(res.body.items[k].subscriberCount)
         IN  [id \in {res.body.items[k].id : k \in found} |-> SubsOf(id)]

\* One element of `scored` in fetchCategoryVideos.
ScoredVideoOf(item, category, subscriberMap) ==
    LET views == CapInt(item.viewCount)
        likes == CapInt(item.likeCount)
        comments == CapInt(item.commentCount)
        seconds == parseDurationSeconds(item.duration)
        subscribers == IF item.channelId \in DOMAIN subscriberMap
                       THEN subscriberMap[item.channelId] ELSE 0
    IN  [videoId |-> item.id, title |-> item.title, viewCount |-> views,
         category |-> category, rank |-> 0, rating |-> getRating(views),
         durationSeconds |-> seconds,
         engagementPasses |-> views > 0 /\ likes * 100 >= MIN_ENGAGEMENT_PERCENT * views,
         subscribers |-> subscribers,
         qualityScore |-> computeQualityScore(views, likes, comments, seconds, subscribers)]

\* The tail of fetchCategoryVideos: the gate, the sort by quality score, and
\* the private fields stripped (durationSeconds stays for the shared Ranked).
GatedByQuality(scored) ==
    LET Passes(v) == /\ v.viewCount >= MIN_VIEWS
                     /\ v.durationSeconds >= MIN_DURATION_SECONDS
                     /\ v.engagementPasses
                     /\ v.subscribers >= MIN_CHANNEL_SUBSCRIBERS
        After(a, b) == RatLT(a.qualityScore, b.qualityScore)
    IN  StableSort(Filter(scored, Passes), After)

\* The calls of one fetchCategoryVideos: the search, the details call when the
\* search found items, and the channels call, for the distinct channel ids of
\* the non-shorts, when the details hold a non-short.
CategoryCalls(search, details, channels) ==
    LET NotShort(item) == ~ReputationIsShort(item)
        nonShorts == Filter(details.body.items, NotShort)
    IN  IF SearchOutcome(search) # "ok" \/ DetailsOutcome(details) # "ok" \/ Len(nonShorts) = 0
        THEN QueryCalls(search, details)
        ELSE [QueryCalls(search, details) EXCEPT
                !.channels = DetailsOutcome(channels),
                !.channelIds = {nonShorts[k].channelId : k \in 1..Len(nonShorts)}]

\* fetchCategoryVideos as a function of its three responses: a non-ok search or
\* details response returns [], a fetch that rejects (or a body that is not
\* JSON) rejects the branch; the channels call is made only when a non-short
\* remains.
fetchCategoryVideos(category, search, details, channels) ==
    LET NotShort(item) == ~ReputationIsShort(item)
        nonShorts == Filter(details.body.items, NotShort)
        channelIds == {nonShorts[k].channelId : k \in 1..Len(nonShorts)}
        Score(item) == ScoredVideoOf(item, category, SubscriberMap(channelIds, channels))
    IN  IF search.kind = "network" THEN Rejected("network")
        ELSE IF search.kind # "ok" THEN Fulfilled(<<>>)
        ELSE IF ~search.body.parsed THEN Rejected("malformed")
        ELSE IF ~search.body.hasItems \/ Len(search.body.items) = 0 THEN Fulfilled(<<>>)
        ELSE IF details.kind = "network" THEN Rejected("network")
        ELSE IF details.kind # "ok" THEN Fulfilled(<<>>)
        ELSE IF Len(nonShorts) = 0 THEN Fulfilled(<<>>)
        ELSE IF channels.kind = "network" THEN Rejected("network")
        ELSE Fulfilled(GatedByQuality(MapSeq(nonShorts, Score)))

-----------------------------------------------------------------------------
(* The reputation-aware trending route: GET, step by step *)

\* CATEGORY_QUERIES[cat] || cat
ReputationQuery(cat) ==
    CASE cat = "React"        -> "react javascript framework tutorial"
      [] cat = "AI & ML"      -> "AI machine learning deep learning LLM"
      [] cat = "JavaScript"   -> "javascript typescript programming tutorial"
      [] cat = "Tech Careers" -> "tech career software developer job interview"
      [] cat = "Web Dev"      -> "web development frontend backend fullstack"
      [] cat = "Open Source"  -> "open source software project github"
      [] OTHER                -> cat

\* Object.keys(categoriesToFetch): the requested category alone, or the
\* configured categories (the first MaxQueries of them).
CategoriesToFetch(category) ==
    IF category # NoCategory THEN <<category>>
    ELSE SubSeq(ReputationCategories, 1, MaxQueries)

\* GET up to its first await: the key check, the cache lookup, and the
\* Promise.all over fetchCategoryVideos of every category to fetch.
ReputationGET(category) ==
    /\ proc = "reputation"
    /\ call.pc = "idle"
    /\ hist.ops < MaxOps
    /\ LET cacheKey == IF category = NoCategory THEN "all" ELSE category
           g == getCached(cache, cacheKey, now)
           c == [RouteIdle EXCEPT !.origin = "direct", !.category = category]
       IN  IF ~env.API_KEY
           THEN /\ call' = Respond([c EXCEPT !.keyMissing = TRUE], 500, <<>>, "config")
                /\ hist' = [hist EXCEPT !.ops = hist.ops + 1, !.gets = <<>>]
                /\ UNCHANGED cache
           ELSE /\ cache' = g.cache
                /\ hist' = [hist EXCEPT
                              !.ops = hist.ops + 1,
                              !.gets = <<RouteGetObs(cacheKey, now, g, hist.sets)>>]
                /\ call' = IF g.hit
                           THEN Respond([c EXCEPT !.hit = TRUE], 200, g.data, "none")
                           ELSE [c EXCEPT
                                   !.pc = "fanout", !.fetched = TRUE,
                                   !.results = [q \in 1..Len(CategoriesToFetch(category))
                                                   |-> Pending],
                                   !.calls = [q \in 1..Len(CategoriesToFetch(category))
                                                 |-> NoCalls]]
    /\ UNCHANGED <<proc, env, now, storage>>

\* The branch of the q-th category settles, given what its calls met.
ReputationBranchSettles(q, search, details, channels) ==
    /\ proc = "reputation"
    /\ call.pc = "fanout"
    /\ q \in 1..Len(call.results)
    /\ call.results[q].status = "pending"
    /\ call' = [call EXCEPT !.results[q] =
                   fetchCategoryVideos(CategoriesToFetch(call.category)[q],
                                       search, details, channels),
                            !.calls[q] =
                               [CategoryCalls(search, details, channels) EXCEPT
                                  !.query = ReputationQuery(
                                                CategoriesToFetch(call.category)[q])]]
    /\ UNCHANGED <<proc, env, now, cache, storage, hist>>

\* Promise.all settles: it rejects as soon as one branch has rejected, which
\* the catch turns into the 500 response; when every branch is fulfilled the
\* results are flattened, deduplicated, sorted, ranked and cached.
ReputationJoin ==
    /\ proc = "reputation"
    /\ call.pc = "fanout"
    /\ LET rejected == \E q \in 1..Len(call.results) : call.results[q].status = "rejected"
           Value(r) == r.value
           allVideos == Ranked(ByViewCount(DedupeFirstSeen(
                                   Flatten(MapSeq(call.results, Value)))))
           cacheKey == IF call.category = NoCategory THEN "all" ELSE call.category
       IN  /\ rejected \/ \A q \in 1..Len(call.results) : call.results[q].status = "fulfilled"
           /\ IF rejected
              THEN /\ call' = Respond(call, 500, <<>>, "failed")
                   /\ UNCHANGED <<cache, hist>>
              ELSE /\ cache' = setCache(cache, cacheKey, allVideos, now)
                   /\ hist' = [hist EXCEPT
                                 !.sets = MapPut(hist.sets, cacheKey,
                                                 RouteSetObs(allVideos, now))]
                   /\ call' = Respond([call EXCEPT !.live = TRUE, !.wrote = {cacheKey}],
                                      200, allVideos, "none")
    /\ UNCHANGED <<proc, env, now, storage>>

ReputationDetailsResponses ==
    {Response("ok", b) : b \in ReputationDetailBodies} \cup
    {Response("http", BodyNoItems), Response("network", BodyNoItems)}

ChannelsResponses ==
    {Response("ok", ChannelsBody), Response("http", BodyNoItems),
     Response("network", BodyNoItems)}

InitReputation ==
    /\ proc = "reputation"
    /\ env \in {Env(TRUE, TRUE, TRUE, TRUE), Env(FALSE, TRUE, TRUE, TRUE)}
    /\ now = 0
    /\ cache = EmptyMap
    /\ storage = NoLocalCache
    /\ call = RouteIdle
    /\ hist = [ops |-> 0, gets |-> <<>>, sets |-> EmptyMap]

NextReputation ==
    \/ \E category \in RequestCategories : ReputationGET(category)
    \/ \E q \in 1..MaxQueries, search \in SearchResponses,
          details \in ReputationDetailsResponses, channels \in ChannelsResponses :
          ReputationBranchSettles(q, search, details, channels)
    \/ ReputationJoin
    \/ RouteCollect
    \/ Restart
    \/ Tick

SpecReputation == InitReputation /\ [][NextReputation]_vars

-----------------------------------------------------------------------------
(* The dashboard component (components/TrendingTechVideos.tsx, first version):
   fetchVideos over the service's getTrendingVideos *)

\* SORT_OPTIONS ids
SortOptions == {"relevant", "newest", "rated"}

\* CATEGORY_QUERIES of lib/constants.ts: CATEGORY_QUERIES[category] || category
ComponentQuery(category) ==
    CASE category = "react"      -> "React JavaScript frontend"
      [] category = "ai"         -> "AI tutorials"
      [] category = "javascript" -> "JavaScript TypeScript programming"
      [] category = "career"     -> "Career Advice"
      [] category = "webdev"     -> "Web Dev"
      [] category = "opensource" -> "open source contributing GitHub"
      [] OTHER                   -> category

\* The getTrendingVideos calls of one fetchVideos: four when no category is
\* active, one for the active category's query.
ComponentCalls(category) ==
    IF category = NoCategory
    THEN << [category |-> "Web Dev", limit |-> 12],
            [category |-> "AI tutorials", limit |-> 12],
            [category |-> "Coding", limit |-> 12],
            [category |-> "ReactJS", limit |-> 12] >>
    ELSE << [category |-> ComponentQuery(category), limit |-> 30] >>

\* const [webDevVideos, aiVideos, codingVideos] = await Promise.all([...four]);
\* allVideos = [...webDevVideos, ...aiVideos, ...codingVideos]: the fourth
\* result is not bound.  With a category allVideos is the one result.
AllVideosOf(category, results) ==
    IF category = NoCategory
    THEN results[1].value \o results[2].value \o results[3].value
    ELSE results[1].value

\* allVideos.filter((video, index, self) =>
\*     index === self.findIndex((v) => v.videoId === video.videoId))
UniqueVideos(seq) == DedupeFirstSeen(seq)

\* [...uniqueVideos].sort(...) by sortBy
SortedVideos(seq, sortBy) ==
    LET Newest(a, b) == a.publishedAt < b.publishedAt
        Rated(a, b) == a.views < b.views
    IN  CASE sortBy = "newest" -> StableSort(seq, Newest)
          [] sortBy = "rated"  -> StableSort(seq, Rated)
          [] OTHER             -> ByTrendScore(seq)

\* What fetcher() returns from the resolved results.
FetcherResult(category, sortBy, results) ==
    Slice(SortedVideos(UniqueVideos(AllVideosOf(category, results)), sortBy), 30)

ComponentIdle ==
    [pc |-> "idle", category |-> NoCategory, sortBy |-> "relevant", results |-> <<>>,
     outcome |-> "none", value |-> <<>>]

\* The statsData.items the getTrendingVideos calls of the component meet.
ComponentItems ==
    {<<ItemB, ItemC, ItemA>>, <<ItemD, ItemE, ItemF, ItemA>>, <<ItemV, ItemB>>, <<>>}

\* fetchVideos(category, sortBy) up to its await: every getTrendingVideos call
\* is started.
fetchVideos(category, sortBy) ==
    /\ proc = "component"
    /\ call.pc = "idle"
    /\ hist.ops < MaxOps
    /\ call' = [ComponentIdle EXCEPT
                  !.pc = "fanout", !.category = category, !.sortBy = sortBy,
                  !.results = [q \in 1..Len(ComponentCalls(category)) |-> Pending]]
    /\ hist' = [hist EXCEPT !.ops = hist.ops + 1]
    /\ UNCHANGED <<proc, env, now, cache, storage>>

\* The q-th getTrendingVideos call resolves with its result for the items it
\* met, or throws (ok = FALSE).
ComponentBranchSettles(q, ok, items) ==
    /\ proc = "component"
    /\ call.pc = "fanout"
    /\ q \in 1..Len(call.results)
    /\ call.results[q].status = "pending"
    /\ call' = [call EXCEPT !.results[q] =
                   IF ok
                   THEN Fulfilled(TrendingResult(items,
                                                 ComponentCalls(call.category)[q].category,
                                                 ComponentCalls(call.category)[q].limit,
                                                 now))
                   ELSE Rejected("failed")]
    /\ UNCHANGED <<proc, env, now, cache, storage, hist>>

\* Promise.all settles: a rejected call rejects fetchVideos, otherwise the rest
\* of fetcher() runs.
ComponentJoin ==
    /\ proc = "component"
    /\ call.pc = "fanout"
    /\ LET rejected == \E q \in 1..Len(call.results) : call.results[q].status = "rejected"
       IN  /\ rejected \/ \A q \in 1..Len(call.results) : call.results[q].status = "fulfilled"
           /\ call' = IF rejected
                      THEN [call EXCEPT !.pc = "done", !.outcome = "error"]
                      ELSE [call EXCEPT
                              !.pc = "done", !.outcome = "value",
                              !.value = FetcherResult(call.category, call.sortBy,
                                                      call.results)]
    /\ UNCHANGED <<proc, env, now, cache, storage, hist>>

\* The promise has been consumed.
ComponentCollect ==
    /\ proc = "component"
    /\ call.pc = "done"
    /\ call' = ComponentIdle
    /\ UNCHANGED <<proc, env, now, cache, storage, hist>>

\* The categories the pills select.
ComponentCategories == {NoCategory, "ai"}

InitComponent ==
    /\ proc = "component"
    /\ env = Env(TRUE, TRUE, TRUE, TRUE)
    /\ now = 0
    /\ cache = EmptyMap
    /\ storage = NoStorage
    /\ call = ComponentIdle
    /\ hist = [ops |-> 0, gets |-> <<>>, sets |-> EmptyMap]

NextComponent ==
    \/ \E category \in ComponentCategories, sortBy \in SortOptions :
          fetchVideos(category, sortBy)
    \/ \E q \in 1..4, ok \in BOOLEAN, items \in ComponentItems :
          ComponentBranchSettles(q, ok, items)
    \/ ComponentJoin
    \/ ComponentCollect
    \/ Tick

SpecComponent == InitComponent /\ [][NextComponent]_vars

-----------------------------------------------------------------------------
(* The APICache object by itself: its constructor, get, set and clear, called
   with arguments of the kinds the tools pass *)

\* The ttl the callers pass with a prefix: the tool's entry of CACHE_TTL
\* (searchVideos passes CACHE_TTL.trendingVideos).
PrefixTTL(prefix) ==
    CASE prefix = "channelMetrics"      -> CACHE_TTL.channelMetrics
      [] prefix = "videoPerformance"    -> CACHE_TTL.videoPerformance
      [] prefix = "trendingVideos"      -> CACHE_TTL.trendingVideos
      [] prefix = "performanceInsights" -> CACHE_TTL.performanceInsights
      [] prefix = "searchVideos"        -> CACHE_TTL.trendingVideos

\* The arguments of get and set: a prefix and a params object, given by its
\* fields in insertion order.  The second is the first with its fields
\* written in the other order.
CacheArgs ==
    {[prefix |-> "trendingVideos",
      params |-> << <<"category", "AI tutorials">>, <<"limit", 1>> >>],
     [prefix |-> "trendingVideos",
      params |-> << <<"limit", 1>>, <<"category", "AI tutorials">> >>],
     [prefix |-> "channelMetrics", params |-> << <<"period", "30d">> >>]}

\* The data set under a prefix: for the trending prefix a list of one video
\* with a finite trendScore and a list of one video without views but with
\* likes, whose trendScore is Infinity; for another prefix two plain values.
CacheData(prefix) ==
    IF prefix \in VideoPrefixes
    THEN {<<[videoId |-> "v1", trendScore |-> Finite(RatInt(5))]>>,
          <<[videoId |-> "v2", trendScore |-> Inf]>>}
    ELSE {<<"v1">>, <<"v2">>}

\* The last method call on the object and what it gave its caller; cleared:
\* clear() has been called on this object and set() has not been since; saved:
\* the call wrote or removed the stored item and that did not throw.
NoCacheCall ==
    [pc |-> "idle", op |-> "none", key |-> <<>>, hit |-> FALSE, data |-> <<>>,
     threw |-> FALSE, cleared |-> FALSE, saved |-> FALSE]

\* apiCache.get(prefix, params)
CacheGet(a, writeOk) ==
    /\ proc = "apicache"
    /\ call.pc = "idle"
    /\ hist.ops < MaxOps
    /\ LET key == getCacheKey(a.prefix, a.params)
           g == APICacheGet(cache, storage, key, now, writeOk)
       IN  /\ cache' = g.cache
           /\ storage' = g.storage
           /\ call' = [NoCacheCall EXCEPT !.op = "get", !.key = key, !.hit = g.hit,
                                          !.data = g.data, !.cleared = call.cleared,
                                          !.saved = /\ env.localStorage /\ writeOk
                                                    /\ key \in DOMAIN cache
                                                    /\ ~g.hit]
           /\ hist' = [hist EXCEPT !.ops = hist.ops + 1,
                                   !.gets = <<GetObs(key, now, g, hist.sets)>>]
    /\ UNCHANGED <<proc, env, now>>

\* apiCache.set(prefix, params, data, ttl)
CacheSet(a, data, writeOk) ==
    /\ proc = "apicache"
    /\ call.pc = "idle"
    /\ hist.ops < MaxOps
    /\ LET key == getCacheKey(a.prefix, a.params)
           r == APICacheSet(cache, storage, key, data, now, PrefixTTL(a.prefix), writeOk)
       IN  /\ cache' = r.cache
           /\ storage' = r.storage
           /\ call' = [NoCacheCall EXCEPT !.op = "set", !.key = key, !.data = data,
                                          !.saved = env.localStorage /\ writeOk]
           /\ hist' = [ops |-> hist.ops + 1, gets |-> <<>>,
                       sets |-> MapPut(hist.sets, key,
                                       SetObs(data, now, PrefixTTL(a.prefix)))]
    /\ UNCHANGED <<proc, env, now>>

\* apiCache.clear()
CacheClear(removeOk) ==
    /\ proc = "apicache"
    /\ call.pc = "idle"
    /\ hist.ops < MaxOps
    /\ LET r == APICacheClear(storage, removeOk) IN
       /\ cache' = r.cache
       /\ storage' = r.storage
       /\ call' = [NoCacheCall EXCEPT !.op = "clear", !.threw = r.threw, !.cleared = TRUE,
                                      !.saved = env.localStorage /\ removeOk]
    /\ hist' = [ops |-> hist.ops + 1, gets |-> <<>>, sets |-> EmptyMap]
    /\ UNCHANGED <<proc, env, now>>

\* new APICache() on a later page load.  The constructor reads
\* window.localStorage outside any try: in a browser that denies the page its
\* storage that read throws (accessOk = FALSE), the constructor throws with it
\* and the module has no apiCache until the page is loaded again.
CacheConstruct(accessOk, readOk) ==
    /\ proc = "apicache"
    /\ hist.ops < MaxOps
    /\ IF env.localStorage /\ ~accessOk
       THEN /\ cache' = EmptyMap
            /\ call' = [NoCacheCall EXCEPT !.pc = "failed", !.op = "new", !.threw = TRUE]
            /\ hist' = [ops |-> hist.ops + 1, gets |-> <<>>, sets |-> EmptyMap]
       ELSE /\ cache' = loadFromStorage(storage, now, readOk)
            /\ call' = [NoCacheCall EXCEPT !.op = "new"]
            /\ hist' = [ops |-> hist.ops + 1, gets |-> <<>>,
                        sets |-> LoadedObs(loadFromStorage(storage, now, readOk))]
    /\ UNCHANGED <<proc, env, now, storage>>

\* A browser, or a server without localStorage.
CacheEnvs == {Env(TRUE, TRUE, TRUE, TRUE), Env(TRUE, TRUE, FALSE, FALSE)}

InitCache ==
    /\ proc = "apicache"
    /\ env \in CacheEnvs
    /\ now = 0
    /\ storage \in (IF env.localStorage THEN {NoStorage, PriorSessionStorage}
                    ELSE {NoStorage})
    /\ cache = loadFromStorage(storage, now, TRUE)
    /\ call = NoCacheCall
    /\ hist = [ops |-> 0, gets |-> <<>>, sets |-> LoadedObs(cache)]

NextCache ==
    \/ \E a \in CacheArgs, writeOk \in BOOLEAN : CacheGet(a, writeOk)
    \/ \E a \in CacheArgs, writeOk \in BOOLEAN :
          \E data \in CacheData(a.prefix) : CacheSet(a, data, writeOk)
    \/ \E removeOk \in BOOLEAN : CacheClear(removeOk)
    \/ \E accessOk \in BOOLEAN, readOk \in BOOLEAN : CacheConstruct(accessOk, readOk)
    \/ Tick

SpecCache == InitCache /\ [][NextCache]_vars

-----------------------------------------------------------------------------
(* Two requests in flight together: two GETs of the trending route (route.ts),
   or two getTrendingVideos calls of the service (via, fixed in the initial
   state).  A handler runs from one await to the next without interruption, so
   a request takes its steps (the lookup up to the first await; each answer it
   awaits; the tail with its writes) interleaved with the other's. *)

Requests == {1, 2}

\* One request: start and end are the positions of its lookup and of its
\* response in the order of the handlers' steps (0: not yet), at is Date.now()
\* of its writes, tool the getTrendingVideos call when it is one.
NoRequest ==
    [pc |-> "idle", category |-> NoCategory, hit |-> FALSE, results |-> <<>>,
     status |-> 0, body |-> <<>>, all |-> <<>>, fallback |-> FALSE, wrote |-> {},
     at |-> 0, start |-> 0, end |-> 0, tool |-> IdleCall]

OverlapIdle(via) ==
    [pc |-> "overlap", via |-> via, step |-> 0, reqs |-> [i \in Requests |-> NoRequest]]

\* The clock step while requests are in flight: half the shortest lifetime of
\* their entries, so that the two writes can bear different timestamps and no
\* entry expires meanwhile.
OverlapTickMs == TickMs \div 2

\* What the calls of these requests meet: a search that finds a video, fails or
\* meets the quota answer; details of two kinds.
OverlapSearchResponses ==
    {Response("ok", Body(<<ItemG>>)), Response("http", BodyNoItems),
     Response("403", BodyNoItems)}
OverlapDetailsResponses ==
    {Response("ok", Body(<<ItemG, ItemI, ItemK>>)), Response("ok", Body(<<ItemH, ItemJ>>))}

\* GET of request i up to its first await.
OverlapGET(i, category) ==
    /\ proc = "overlap"
    /\ call.via = "route"
    /\ call.reqs[i].pc = "idle"
    /\ LET cacheKey == IF category = NoCategory THEN "all" ELSE category
           g == getCached(cache, cacheKey, now)
           r == [NoRequest EXCEPT !.category = category, !.start = call.step + 1]
       IN  /\ cache' = g.cache
           /\ call' = [call EXCEPT
                         !.step = call.step + 1,
                         !.reqs[i] =
                            IF g.hit
                            THEN [r EXCEPT !.pc = "done", !.hit = TRUE, !.status = 200,
                                           !.body = g.data, !.end = call.step + 1]
                            ELSE [r EXCEPT !.pc = "fanout",
                                           !.results = [q \in 1..MaxQueries |-> Pending]]]
    /\ UNCHANGED <<proc, env, now, storage, hist>>

\* A branch of request i settles.
OverlapBranchSettles(i, q, search, details) ==
    /\ proc = "overlap"
    /\ call.via = "route"
    /\ call.reqs[i].pc = "fanout"
    /\ call.reqs[i].results[q].status = "pending"
    /\ call' = [call EXCEPT !.reqs[i].results[q] = fetchVideosForQuery(search, details)]
    /\ UNCHANGED <<proc, env, now, cache, storage, hist>>

\* Promise.allSettled of request i resolves: the rest of its GET.
OverlapJoin(i) ==
    /\ proc = "overlap"
    /\ call.via = "route"
    /\ call.reqs[i].pc = "fanout"
    /\ \A q \in 1..MaxQueries : call.reqs[i].results[q].status # "pending"
    /\ LET req == call.reqs[i]
           r == fetchTrendingVideos(req.results)
           result == ByCategory(r.videos, req.category)
           all == setCache(cache, "all", r.videos, now)
           done == [req EXCEPT !.pc = "done", !.status = 200, !.end = call.step + 1]
       IN  IF r.threw = "quota"
           THEN /\ call' = [call EXCEPT
                              !.step = call.step + 1,
                              !.reqs[i] = [done EXCEPT
                                             !.fallback = TRUE,
                                             !.body = ByCategory(MOCK_TRENDING_VIDEOS,
                                                                 req.category)]]
                /\ UNCHANGED cache
           ELSE /\ cache' = IF req.category = NoCategory THEN all
                            ELSE setCache(all, req.category, result, now)
                /\ call' = [call EXCEPT
                              !.step = call.step + 1,
                              !.reqs[i] = [done EXCEPT
                                             !.body = result, !.all = r.videos,
                                             !.at = now,
                                             !.wrote = IF req.category = NoCategory
                                                       THEN {"all"}
                                                       ELSE {"all", req.category}]]
    /\ UNCHANGED <<proc, env, now, storage, hist>>

\* The getTrendingVideos calls of the overlapping requests: one key, or two.
OverlapToolInputs ==
    {[tool |-> "getTrendingVideos", arg |-> "AI tutorials", limit |-> 1],
     [tool |-> "getTrendingVideos", arg |-> "AI tutorials", limit |-> 2]}

\* The request as its tool call leaves it after a step at position n.
ToolRequest(req, r, n, t) ==
    [req EXCEPT
       !.tool = r.call,
       !.pc = r.call.pc,
       !.hit = r.call.hit,
       !.body = r.call.value,
       !.wrote = r.call.wrote \cup r.w.wrote,
       !.at = IF r.w.wrote # {} THEN t ELSE req.at,
       !.start = IF req.start = 0 THEN n ELSE req.start,
       !.end = IF r.call.pc = "done" THEN n ELSE 0]

\* The step of request i becomes the next state.
OverlapCommit(i, r) ==
    /\ call' = [call EXCEPT
                  !.step = call.step + 1,
                  !.reqs[i] = ToolRequest(call.reqs[i], r, call.step + 1, now)]
    /\ cache' = r.w.cache
    /\ storage' = r.w.storage
    /\ hist' = [hist EXCEPT !.sets = r.w.sets]

\* getTrendingVideos of request i up to its first await.
OverlapInvoke(i, in) ==
    /\ proc = "overlap"
    /\ call.via = "service"
    /\ call.reqs[i].pc = "idle"
    /\ OverlapCommit(i, InvokeResult(in, now, env.storageWritable))
    /\ UNCHANGED <<proc, env, now>>

\* The fetchWithRetry request i awaits returns a response with this body.
OverlapFetchReturns(i, body) ==
    /\ proc = "overlap"
    /\ call.via = "service"
    /\ call.reqs[i].pc = "fetch"
    /\ body \in (IF call.reqs[i].tool.stage = 1 THEN ListBodies ELSE DetailBodies)
    /\ OverlapCommit(i, VideoSearchNext(Fetched(call.reqs[i].tool, "ok"), body, World, now,
                                        env.storageWritable))
    /\ UNCHANGED <<proc, env, now>>

\* The fetchWithRetry request i awaits throws: the quota answer, or an error
\* status.
OverlapFetchFails(i, kind) ==
    /\ proc = "overlap"
    /\ call.via = "service"
    /\ call.reqs[i].pc = "fetch"
    /\ fetchWithRetryStep(call.reqs[i].tool.i, kind) \in {"throwQuota", "throwHttp"}
    /\ OverlapCommit(i, [call |-> Thrown(Fetched(call.reqs[i].tool, kind), kind), w |-> World])
    /\ UNCHANGED <<proc, env, now>>

\* Time passes while the requests are in flight.
OverlapTick ==
    /\ proc = "overlap"
    /\ now < MaxTicks * OverlapTickMs
    /\ now' = now + OverlapTickMs
    /\ UNCHANGED <<proc, env, cache, storage, call, hist>>

InitOverlap ==
    /\ proc = "overlap"
    /\ env = Env(TRUE, TRUE, TRUE, TRUE)
    /\ now = 0
    /\ cache = EmptyMap
    /\ \E via \in {"route", "service"} :
          /\ call = OverlapIdle(via)
          /\ storage = IF via = "route" THEN NoLocalCache ELSE NoStorage
    /\ hist = [ops |-> 0, gets |-> <<>>, sets |-> EmptyMap]

NextOverlap ==
    \/ \E i \in Requests, category \in {NoCategory, "React"} : OverlapGET(i, category)
    \/ \E i \in Requests, q \in 1..MaxQueries, search \in OverlapSearchResponses,
          details \in OverlapDetailsResponses :
          OverlapBranchSettles(i, q, search, details)
    \/ \E i \in Requests : OverlapJoin(i)
    \/ \E i \in Requests, in \in OverlapToolInputs : OverlapInvoke(i, in)
    \/ \E i \in Requests, body \in ListBodies \cup DetailBodies : OverlapFetchReturns(i, body)
    \/ \E i \in Requests, kind \in {"quota", "http"} : OverlapFetchFails(i, kind)
    \/ OverlapTick

SpecOverlap == InitOverlap /\ [][NextOverlap]_vars

-----------------------------------------------------------------------------
(* The scoring functions of the service by themselves, applied to statistics
   of the kinds the API reports *)

\* The statistics scored: view and like counts (likes above views included),
\* durations around the limits of the duration score, and ages around the
\* one-hour floor of hoursOld (a publication time ahead of the clock included).
ScoredViews == {0, 1, 999, 4999, 100000, 1000000}
ScoredLikes == {0, 1, 49, 50000, 2000000}
ScoredSeconds == {0, 179, 180, 299, 300, 600, 1200, 1201, 2400, 2401}
ScoredAges == {0 - MsPerHour, 0, MsPerHour \div 2, MsPerHour, 2 * MsPerHour, 100 * MsPerHour}

NotScored ==
    [pc |-> "idle", views |-> 0, likes |-> 0, durationSeconds |-> 0, publishedAt |-> 0,
     qualityScore |-> 0]

\* calculateQualityScore(views, likes, publishedAt, durationSeconds) at the
\* present time.
Score(views, likes, durationSeconds, age) ==
    /\ proc = "scoring"
    /\ call.pc = "idle"
    /\ hist.ops < MaxOps
    /\ call' = [pc |-> "scored", views |-> views, likes |-> likes,
                durationSeconds |-> durationSeconds, publishedAt |-> now - age,
                qualityScore |-> calculateQualityScore(views, likes, now - age,
                                                       durationSeconds, now)]
    /\ hist' = [hist EXCEPT !.ops = hist.ops + 1]
    /\ UNCHANGED <<proc, env, now, cache, storage>>

\* Titles and tag lists in mixed case: keywords of several groups together,
\* of one group, of a group of one categorizeVideo only, and of none.
Str_React_AI_job == <<"R","e","a","c","t"," ","A","I"," ","j","o","b">>
Str_Salary_CSS   == <<"S","a","l","a","r","y"," ","C","S","S">>
Str_GITHUB_Node  == <<"G","I","T","H","U","B"," ","N","o","d","e">>
Str_Rust         == <<"R","u","s","t">>
CategorizedTitles == {Str_React_AI_job, Str_Salary_CSS, Str_GITHUB_Node, Str_Rust, <<>>}
CategorizedTags ==
    {<<>>, << <<"L","L","M">> >>, << <<"C","o","d","e">>, <<"N","E","X","T">> >>}

\* categorizeVideo(title, tags) of the service and of the route.
Categorize(title, tags) ==
    /\ proc = "scoring"
    /\ call.pc = "idle"
    /\ hist.ops < MaxOps
    /\ call' = [pc |-> "categorized", title |-> title, tags |-> tags,
                service |-> ServiceCategorizeVideo(title, tags),
                route |-> RouteCategorizeVideo(title, tags)]
    /\ hist' = [hist EXCEPT !.ops = hist.ops + 1]
    /\ UNCHANGED <<proc, env, now, cache, storage>>

\* The score or the category has been used.
ScoreCollect ==
    /\ proc = "scoring"
    /\ call.pc \in {"scored", "categorized"}
    /\ call' = NotScored
    /\ UNCHANGED <<proc, env, now, cache, storage, hist>>

InitScoring ==
    /\ proc = "scoring"
    /\ env = Env(TRUE, TRUE, TRUE, TRUE)
    /\ now = 0
    /\ cache = EmptyMap
    /\ storage = NoStorage
    /\ call = NotScored
    /\ hist = [ops |-> 0, gets |-> <<>>, sets |-> EmptyMap]

NextScoring ==
    \/ \E views \in ScoredViews, likes \in ScoredLikes, durationSeconds \in ScoredSeconds,
          age \in ScoredAges : Score(views, likes, durationSeconds, age)
    \/ \E title \in CategorizedTitles, tags \in CategorizedTags : Categorize(title, tags)
    \/ ScoreCollect
    \/ Tick

SpecScoring == InitScoring /\ [][NextScoring]_vars

-----------------------------------------------------------------------------
(* Requests that run to their end: the tools and the route while the clock
   stands still, every fetch settling and every continuation being run *)

\* One fetch(url) of the current fetchWithRetry settles, one way or another.
FetchSettles ==
    \/ \E kind \in FailureKinds : FetchFails(kind)
    \/ \E body \in StageBodies : ChannelMetricsStep(body)
    \/ \E body \in StageBodies : VideoPerformanceStep(body)
    \/ \E body \in StageBodies : TrendingStep(body)
    \/ \E body \in StageBodies : SearchStep(body)

\* The calls of branch q settle, one way or another.
BranchSettlesSomehow(q) ==
    \E search \in SearchResponses, details \in DetailsResponses :
        BranchSettles(q, search, details)

InitRequests == InitService \/ InitRoute

NextRequests ==
    \/ \E in \in ToolInputs : Invoke(in)
    \/ FetchSettles
    \/ Backoff
    \/ Collect
    \/ \E category \in RequestCategories : DirectRequest(category)
    \/ \E readOk \in BOOLEAN : ClientMount(readOk)
    \/ GET
    \/ \E q \in 1..MaxQueries : BranchSettlesSomehow(q)
    \/ Join
    \/ ClientReceives
    \/ RouteCollect

\* Promise.allSettled has every branch settled and its continuation, Join, has
\* not run yet.
JoinReady ==
    /\ proc = "route"
    /\ call.pc = "fanout"
    /\ \A q \in 1..MaxQueries : call.results[q].status # "pending"

\* Every upstream call settles (a fetch, a branch of the fan-out), every timer
\* fires, and the event loop runs every continuation that is ready.  Join is
\* enabled exactly in the states JoinReady and is the only step out of them, so
\* that its weak fairness is that no behaviour stays in them for ever.
FairRequests ==
    /\ WF_vars(FetchSettles)
    /\ WF_vars(Backoff)
    /\ WF_vars(GET)
    /\ \A q \in 1..MaxQueries : WF_vars(BranchSettlesSomehow(q))
    /\ []<>~JoinReady
    /\ WF_vars(ClientReceives)

SpecRequests == InitRequests /\ [][NextRequests]_vars /\ FairRequests

-----------------------------------------------------------------------------
(* The programs together: a behaviour is a behaviour of one of them *)

Init ==
    \/ InitService \/ InitRoute \/ InitReputation \/ InitComponent \/ InitCache
    \/ InitOverlap \/ InitScoring

Next ==
    \/ NextService \/ NextRoute \/ NextReputation \/ NextComponent \/ NextCache
    \/ NextOverlap \/ NextScoring

Spec == Init /\ [][Next]_vars

-----------------------------------------------------------------------------
(* Properties of the caches and of the entry points *)

\* C1: in both stores (APICache and the route's Map), a get of a key whose last
\* set on this store, with no clear since, is known: issued while
\* now <= expiresAt it returns the value that was set; issued when
\* now > expiresAt it returns absent and the key is gone from the store.
GetReturnsLastSetUntilExpiry ==
    \A k \in 1..Len(hist.gets) :
        LET g == hist.gets[k] IN
        g.known =>
            IF g.at <= g.setExpiresAt
            THEN g.hit /\ g.data = g.setData
            ELSE ~g.hit /\ g.removed

\* The route's getCached meets an entry it had set, after its expiry.
RouteGetAfterExpiry ==
    /\ proc = "route"
    /\ Len(hist.gets) = 1
    /\ hist.gets[1].known
    /\ hist.gets[1].at > hist.gets[1].setExpiresAt
    /\ ~hist.gets[1].hit
    /\ "all" \notin DOMAIN cache \/ call.pc # "request"

\* C2: in the trending route, when at least one branch ended with the quota
\* signal, the response is 200 with the fallback dataset, filtered by the
\* category when one was asked for, no error, and nothing cached, whatever
\* the other branches gave.
QuotaAnywhereServesFallback ==
    (/\ proc = "route"
     /\ call.pc \in {"responded", "done"}
     /\ \E q \in 1..Len(call.results) :
           call.results[q].status = "rejected" /\ call.results[q].reason = "quota")
    => /\ call.status = 200
       /\ call.error = "none"
       /\ call.body = SelectSeq(MOCK_TRENDING_VIDEOS,
                                LAMBDA v : call.category = NoCategory
                                           \/ v.category = call.category)
       /\ call.wrote = {}

\* One branch met the quota signal, another returned videos, and a category
\* was asked for.
QuotaBesideSuccess ==
    /\ proc = "route"
    /\ call.pc = "done"
    /\ call.category = "React"
    /\ call.fallback
    /\ \E q \in 1..Len(call.results) : call.results[q].reason = "quota"
    /\ \E q \in 1..Len(call.results) : Len(call.results[q].value) > 0

\* C3, as the specification states it: in a fan-out with no category filter and
\* no quota signal, the request succeeds and the response holds the videos of
\* every branch that was fulfilled, whatever the other branches met.
TransientBranchFailureIsolated ==
    (/\ proc \in {"route", "reputation"}
     /\ call.pc \in {"responded", "done"}
     /\ call.category = NoCategory
     /\ call.fetched
     /\ \A q \in 1..Len(call.results) : call.results[q].reason # "quota")
    => /\ call.status = 200
       /\ \A q \in 1..Len(call.results) :
             \A i \in 1..Len(call.results[q].value) :
                \E j \in 1..Len(call.body) :
                   call.body[j].videoId = call.results[q].value[i].videoId

\* C4, as the specification states it: the trending route, getTrendingVideos
\* and searchVideos end in an error only for a missing credential or an
\* unexpected failure of the pipeline, never with the provider's quota or HTTP
\* error.
NoProviderErrorReachesCaller ==
    /\ (/\ proc = "service"
        /\ call.pc = "done"
        /\ call.tool \in {"getTrendingVideos", "searchVideos"}
        /\ call.outcome = "error")
       => call.error \in {"config", "failed"}
    /\ (proc = "route" /\ call.pc \in {"responded", "done"} /\ call.status = 500)
       => call.error \in {"config", "failed"}

\* C5: a tool whose key hits in APICache returns the value without entering
\* fetchWithRetry; the route returns a hit of its Map without fanning out; the
\* client that reads an unexpired local entry holding at least one video shows
\* it without calling the route.
CacheHitMakesNoCall ==
    /\ (proc = "service" /\ call.hit)
       => /\ call.pc = "done"
          /\ call.outcome = "value"
          /\ call.stage = 0
          /\ call.attempts = 0
    /\ (proc = "route" /\ call.hit) => ~call.fetched /\ call.status = 200
    /\ (proc = "route" /\ call.localFound /\ call.localLen > 0)
       => ~call.routeCalled /\ ~call.fetched /\ call.pc = "done"

\* The client shows its unexpired local entry.
LocalEntryShown ==
    /\ proc = "route"
    /\ call.localFound
    /\ call.localLen > 0
    /\ call.pc = "done"
    /\ call.shown = storage.data

\* C5, as the specification states it: the same, for every unexpired local
\* entry of the client.
EveryCacheHitMakesNoCall ==
    /\ (proc = "service" /\ call.hit) => call.stage = 0 /\ call.attempts = 0
    /\ (proc = "route" /\ call.hit) => ~call.fetched
    /\ (proc = "route" /\ call.localFound) => ~call.routeCalled

\* C6, as the specification states it: when a live fetch has succeeded, the
\* route's Map holds the videos under "all" and the response under the
\* category asked for; the client has stored the response it got (in a
\* localStorage that takes writes); the tool's APICache entry holds the value
\* the tool returns.
LiveFetchWritesEveryCache ==
    /\ (proc = "route" /\ call.live /\ call.pc \in {"responded", "done"})
       => /\ "all" \in DOMAIN cache
          /\ call.category = NoCategory => cache["all"].data = call.body
          /\ call.category # NoCategory =>
                /\ call.category \in DOMAIN cache
                /\ cache[call.category].data = call.body
    /\ (/\ proc = "route"
        /\ call.live
        /\ call.origin = "client"
        /\ call.pc = "done"
        /\ env.storageWritable)
       => storage.present /\ storage.data = call.body
    /\ (/\ proc = "service"
        /\ call.pc = "done"
        /\ call.outcome = "value"
        /\ call.attempts > 0)
       => /\ ToolKey(call.tool, call.arg, call.limit) \in DOMAIN cache
          /\ cache[ToolKey(call.tool, call.arg, call.limit)].data = call.value

\* C10, as the specification states it: without the API key every entry point
\* ends in the configuration error, having made no upstream call and returned
\* neither cached nor fallback data.
MissingKeyFailsAtOnce ==
    /\ (proc = "service" /\ ~env.API_KEY /\ call.pc = "done")
       => /\ call.outcome = "error"
          /\ call.error = "config"
          /\ call.attempts = 0
    /\ (/\ proc \in {"route", "reputation"}
        /\ ~env.API_KEY
        /\ call.pc \in {"responded", "done"}
        /\ call.origin = "direct" \/ call.routeCalled)
       => /\ call.status = 500
          /\ call.error = "config"
          /\ ~call.fetched
          /\ ~call.fallback

-----------------------------------------------------------------------------
(* Properties of fetchWithRetry *)

HttpErrorRetriedUntilExhausted ==
    (proc = "service" /\ call.pc = "done" /\ call.last \in {"http", "forbidden"}) =>
        call.attempts = 3

-----------------------------------------------------------------------------
(* Properties of the trending responses *)

\* C11: a trending request, once answered by the handler, has status 200 with
\* an array or status 500; the 500 is answered only when the API key is
\* missing or some branch failed with something that is neither the quota
\* signal nor a transient failure of that branch (a non-2xx status, a network
\* error).
ErrorOnlyForKeyOrUnclassifiedFailure ==
    (proc \in {"route", "reputation"} /\ call.pc \in {"responded", "done"}
       /\ call.status # 0) =>
        /\ call.status \in {200, 500}
        /\ call.status = 500 =>
              \/ call.keyMissing
              \/ \E q \in 1..Len(call.results) : call.results[q].reason = "malformed"

\* The ids of a list of records, and the ids its fulfilled branches hold.
IdsOf(seq) == {seq[k].videoId : k \in 1..Len(seq)}
BranchIds(results) == UNION {IdsOf(results[q].value) : q \in 1..Len(results)}
DistinctIds(seq) ==
    \A i, j \in 1..Len(seq) : i # j => seq[i].videoId # seq[j].videoId

\* C12, in the two routes: a live response holds no video id twice, and the
\* live response to a request without category holds every id that some
\* branch returned.
RouteOutputOneEntryPerVideoId ==
    (proc \in {"route", "reputation"} /\ call.pc \in {"responded", "done"} /\ call.live) =>
        /\ DistinctIds(call.body)
        /\ call.category = NoCategory => IdsOf(call.body) = BranchIds(call.results)

\* C12: the aggregated output of a trending fetch (a live response of a route,
\* the value fetchVideos resolves with) holds no video id twice and holds
\* every id that some branch returned.
OutputOneEntryPerVideoId ==
    /\ RouteOutputOneEntryPerVideoId
    /\ (proc = "component" /\ call.pc = "done" /\ call.outcome = "value") =>
          /\ DistinctIds(call.value)
          /\ IdsOf(call.value) = BranchIds(call.results)

\* C13: in a live response of a route to a request without category, the
\* record kept for a video id has a view count (the field the routes rank by)
\* at least that of every branch record of the same id.
DedupeKeepsHighestScore ==
    (proc \in {"route", "reputation"} /\ call.pc \in {"responded", "done"}
       /\ call.live /\ call.category = NoCategory) =>
        \A i \in 1..Len(call.body), q \in 1..Len(call.results) :
            \A k \in 1..Len(call.results[q].value) :
                call.results[q].value[k].videoId = call.body[i].videoId =>
                    call.results[q].value[k].viewCount <= call.body[i].viewCount

\* Where a video id is first met when the branches are walked in order.
FirstAt(seq, id) ==
    CHOOSE k \in 1..Len(seq) :
        seq[k].videoId = id /\ \A j \in 1..(k - 1) : seq[j].videoId # id

\* The order of a route's response: descending view count, and among equal
\* view counts (in a live response, whose branches are known) the order in
\* which the branches were walked.
RankOrderFollowsViewCount ==
    (proc \in {"route", "reputation"} /\ call.pc \in {"responded", "done"}
       /\ call.status = 200 /\ ~call.fallback) =>
        \A i, j \in 1..Len(call.body) :
            i < j =>
                /\ call.body[i].viewCount >= call.body[j].viewCount
                /\ call.body[i].rank < call.body[j].rank
                /\ (call.live /\ call.body[i].viewCount = call.body[j].viewCount) =>
                      LET Value(r) == r.value
                          found == Flatten(MapSeq(call.results, Value))
                      IN  FirstAt(found, call.body[i].videoId)
                             < FirstAt(found, call.body[j].videoId)

\* C14: every response of a route that holds records (to a request with or
\* without category, live or from the cache) has the ranks 1..n in this order,
\* and its order is that of RankOrderFollowsViewCount.
RanksAreDenseInScoreOrder ==
    /\ RankOrderFollowsViewCount
    /\ (proc \in {"route", "reputation"} /\ call.pc \in {"responded", "done"}
          /\ call.status = 200 /\ ~call.fallback) =>
           \A i \in 1..Len(call.body) : call.body[i].rank = i

\* The length in seconds an ISO 8601 duration P[nD][T[nH][nM][nS]] stands for.
Iso8601Seconds(s) ==
    LET gd == DurationGroup(s, 2, "D")
        t0 == IF gd.next <= Len(s) /\ s[gd.next] = "T" THEN gd.next + 1 ELSE Len(s) + 1
        gh == DurationGroup(s, t0, "H")
        gm == DurationGroup(s, gh.next, "M")
        gs == DurationGroup(s, gm.next, "S")
    IN  CapInt(gd.cap) * 86400 + CapInt(gh.cap) * 3600 + CapInt(gm.cap) * 60
          + CapInt(gs.cap)

\* The upstream item is a short: at most 60 seconds long, or marked in its
\* title or tags.
IsAShort(item) ==
    HasShortsMarker(item.title, item.tags) \/ Iso8601Seconds(item.duration) <= 60

ReputationItems == <<ItemP, ItemQ, ItemR, ItemS, ItemT, ItemU>>

\* No record of `videos` stems from an upstream item (of `items`) that is a short.
HoldsNoShort(videos, items) ==
    \A i \in 1..Len(videos), k \in 1..Len(items) :
        items[k].id = videos[i].videoId => ~IsAShort(items[k])

\* The routes keep shorts out of their live responses.
RoutesHoldNoShort ==
    /\ (proc = "route" /\ call.pc \in {"responded", "done"} /\ call.live) =>
          HoldsNoShort(call.body, RouteItems)
    /\ (proc = "reputation" /\ call.pc \in {"responded", "done"} /\ call.live) =>
          HoldsNoShort(call.body, ReputationItems)

\* C15: no upstream item that is at most 60 seconds long, or that carries a
\* shorts marker in its title or tags, is behind a record of a live result of
\* getTrendingVideos, of searchVideos or of a trending route.
NoShortInLiveOutput ==
    /\ RoutesHoldNoShort
    /\ (proc = "service" /\ call.pc = "done" /\ call.outcome = "value" /\ ~call.hit
          /\ call.tool \in {"getTrendingVideos", "searchVideos"}) =>
           HoldsNoShort(call.value, ResponseItems)

\* The subscriberCount channels.list reports for a channel.
SubscribersOf(channelId) ==
    LET k == CHOOSE j \in 1..Len(ChannelsBody.items) : ChannelsBody.items[j].id = channelId
    IN  CapInt(ChannelsBody.items[k].subscriberCount)

\* The upstream item has the views and the length of the floors.
MeetsFloors(item) ==
    /\ CapInt(item.viewCount) >= MIN_VIEWS
    /\ Iso8601Seconds(item.duration) >= MIN_DURATION_SECONDS

\* ... and the like/view ratio and the channel of the reputation floors.
MeetsReputationFloors(item) ==
    /\ MeetsFloors(item)
    /\ CapInt(item.likeCount) * 100 >= MIN_ENGAGEMENT_PERCENT * CapInt(item.viewCount)
    /\ SubscribersOf(item.channelId) >= MIN_CHANNEL_SUBSCRIBERS

\* The routes keep every record below their floors out of their live
\* responses: views and duration in route.ts, and the like/view ratio and the
\* channel's subscribers as well in the reputation-aware route.
RoutesHoldFloors ==
    /\ (proc = "route" /\ call.pc \in {"responded", "done"} /\ call.live) =>
          \A i \in 1..Len(call.body), k \in 1..Len(RouteItems) :
              (/\ RouteItems[k].id = call.body[i].videoId
               /\ CapInt(RouteItems[k].viewCount) = call.body[i].viewCount) =>
                  MeetsFloors(RouteItems[k])
    /\ (proc = "reputation" /\ call.pc \in {"responded", "done"} /\ call.live) =>
          \A i \in 1..Len(call.body), k \in 1..Len(ReputationItems) :
              (/\ ReputationItems[k].id = call.body[i].videoId
               /\ CapInt(ReputationItems[k].viewCount) = call.body[i].viewCount) =>
                  MeetsReputationFloors(ReputationItems[k])

\* C16: no record below the floors (5,000 views, 180 seconds, and in the
\* reputation-aware route a like/view ratio of 1% and 1,000 subscribers) is in
\* the live result of a trending fetch: of a route, or of getTrendingVideos.
NoRecordBelowFloors ==
    /\ RoutesHoldFloors
    /\ (proc = "service" /\ call.pc = "done" /\ call.outcome = "value" /\ ~call.hit
          /\ call.tool = "getTrendingVideos") =>
           \A i \in 1..Len(call.value), k \in 1..Len(ResponseItems) :
               (/\ ResponseItems[k].id = call.value[i].videoId
                /\ CapInt(ResponseItems[k].viewCount) = call.value[i].views) =>
                   MeetsFloors(ResponseItems[k])

\* C17: a fallback response to a request with category c holds exactly the
\* records of the fallback dataset whose category equals c, in the order of
\* the dataset; to a request without category it is the whole dataset.
FallbackFilteredByCategory ==
    (proc = "route" /\ call.pc \in {"responded", "done"} /\ call.fallback) =>
        LET of == {k \in 1..Len(MOCK_TRENDING_VIDEOS) :
                      MOCK_TRENDING_VIDEOS[k].category = call.category}
            Nth(i) == CHOOSE k \in of : Cardinality({j \in of : j < k}) = i - 1
        IN  /\ call.status = 200
            /\ IF call.category = NoCategory
               THEN call.body = MOCK_TRENDING_VIDEOS
               ELSE /\ Len(call.body) = Cardinality(of)
                    /\ \A i \in 1..Len(call.body) :
                          call.body[i] = MOCK_TRENDING_VIDEOS[Nth(i)]

\* The fallback served for a category that part of the dataset has.
FallbackServedForCategory ==
    /\ proc = "route"
    /\ call.pc = "done"
    /\ call.fallback
    /\ call.category = "AI & ML"
    /\ Len(call.body) = 1
    /\ call.body[1].videoId = "mock2"

-----------------------------------------------------------------------------
(* Properties of APICache *)

\* Two keys of one prefix whose params hold the same field/value pairs.
SameFields(k1, k2) ==
    /\ k1[2] = k2[2]
    /\ {k1[3][i] : i \in 1..Len(k1[3])} = {k2[3][i] : i \in 1..Len(k2[3])}

\* C18: a get is a hit whenever an entry set on this object since its last
\* clear, under params with the same field/value pairs in whatever order, is
\* still unexpired: the two params objects give the same key.
KeyIndependentOfFieldOrder ==
    (proc = "apicache" /\ call.op = "get") =>
        \A k \in DOMAIN hist.sets :
            SameFields(k, call.key) =>
                /\ k = call.key
                /\ now <= hist.sets[k].expiresAt => call.hit

\* The TTL configured for the namespace of a key.
NamespaceTTL(key) == PrefixTTL(key[2])

\* C19: every entry of APICache, in the map and in the stored item, those
\* loaded from localStorage by the constructor included, expires exactly the
\* TTL of its namespace after it was stored: 15 min for channel metrics and
\* video performance, 60 min for trending and search, 30 min for insights.
EntryLifetimeIsNamespaceTTL ==
    proc \in {"service", "apicache"} =>
        /\ \A k \in DOMAIN cache :
              cache[k].expiresAt - cache[k].timestamp = NamespaceTTL(k)
        /\ storage.present =>
              \A k \in DOMAIN storage.map :
                  storage.map[k].expiresAt - storage.map[k].timestamp = NamespaceTTL(k)
        /\ CACHE_TTL = [channelMetrics      |-> 900000,
                        videoPerformance    |-> 900000,
                        trendingVideos      |-> 3600000,
                        performanceInsights |-> 1800000]

\* The map holds an entry that the constructor loaded from localStorage, where
\* an earlier page load had written it, beside an entry of another namespace
\* written since.
LoadedEntryBesideNewEntry ==
    /\ proc = "service"
    /\ storage.present
    /\ \E k1, k2 \in DOMAIN cache :
          /\ cache[k1].timestamp < 0
          /\ k1 \in DOMAIN storage.map
          /\ cache[k1].expiresAt - cache[k1].timestamp = 60 * 60 * 1000
          /\ cache[k2].timestamp = now
          /\ cache[k2].expiresAt - cache[k2].timestamp = 15 * 60 * 1000

\* What the constructor leaves in the map: entries of the stored item, as they
\* were written, that are not expired.
LoadsOnlyStoredUnexpired ==
    (proc = "apicache" /\ call.op = "new") =>
        \A k \in DOMAIN cache :
            /\ storage.present
            /\ k \in DOMAIN storage.map
            /\ cache[k] = storage.map[k]
            /\ cache[k].expiresAt > cache[k].timestamp
            /\ hist.sets[k].expiresAt = cache[k].expiresAt

\* C20: the constructor loads only entries of the stored item; no call of the
\* constructor, get, set or clear throws, whatever the storage does, and the
\* map is left as the call leaves it with a working storage: a set leaves its
\* entry in the map, a clear leaves the map empty.
StorageFailuresNeverThrown ==
    /\ LoadsOnlyStoredUnexpired
    /\ proc = "apicache" =>
          /\ ~call.threw
          /\ call.op = "set" => (call.key \in DOMAIN cache /\ cache[call.key].data = call.data)
          /\ call.op = "clear" => cache = EmptyMap
    /\ (proc = "service" /\ call.pc = "idle") => call.error # "storage"

\* What holds of it: get and set never throw and a set leaves its entry in
\* the map, whether the storage took the write or not.
StorageFailuresSwallowedByGetAndSet ==
    /\ LoadsOnlyStoredUnexpired
    /\ (proc = "apicache" /\ call.op \in {"get", "set"}) =>
          /\ ~call.threw
          /\ call.op = "set" => (call.key \in DOMAIN cache /\ cache[call.key].data = call.data)

-----------------------------------------------------------------------------
(* Properties of the fetch cycle *)

\* A branch one of whose upstream calls failed transiently: an error status
\* other than 403, or a fetch that was rejected.
BranchFailed(c) ==
    \/ c.search \in {"http", "network"}
    \/ c.details \in {"http", "network"}
    \/ c.channels \in {"http", "network"}

\* C21: a request whose upstream calls failed has written no cache entry: a
\* fan-out every branch of which ended in a failed call, or a branch of which
\* met the quota signal, and a tool call that ended in an error.
FailedFetchWritesNoEntry ==
    /\ (/\ proc \in {"route", "reputation"}
        /\ call.pc \in {"responded", "done"}
        /\ call.fetched
        /\ \/ \A q \in 1..Len(call.calls) : BranchFailed(call.calls[q])
           \/ \E q \in 1..Len(call.results) : call.results[q].reason = "quota")
       => call.wrote = {}
    /\ (proc = "service" /\ call.pc = "done" /\ call.outcome = "error")
       => call.wrote = {}

\* C22: in the trending route, once a branch has signalled quota the
\* orchestrator waits for no branch still in flight (the join, which routes to
\* the fallback, can run at once); with no quota signal the join runs only
\* when every branch has settled.
QuotaShortCircuitsTheJoin ==
    (proc = "route" /\ call.pc = "fanout")
    => IF \E q \in 1..Len(call.results) : call.results[q].reason = "quota"
       THEN ENABLED Join
       ELSE (ENABLED Join) =>
               \A q \in 1..Len(call.results) : call.results[q].status # "pending"

\* The key a request looks up and is answered under.
KeyOf(req) ==
    IF req.tool.tool # "none" THEN ToolKey(req.tool.tool, req.tool.arg, req.tool.limit)
    ELSE IF req.category = NoCategory THEN "all" ELSE req.category

\* Entry e under key k is what request req wrote there, whole.
WroteEntry(req, k, e) ==
    /\ k \in req.wrote
    /\ e = IF req.tool.tool # "none"
           THEN [data |-> req.body, timestamp |-> req.at,
                 expiresAt |-> req.at + CACHE_TTL.trendingVideos]
           ELSE [data |-> IF k = "all" THEN req.all ELSE req.body, timestamp |-> req.at]

\* The request ran its own upstream fetch to its end: every branch of the
\* route's fan-out has settled; the tool has made its search call.
RanOwnFetch(req) ==
    IF req.tool.tool # "none" THEN req.tool.stage >= 1
    ELSE /\ Len(req.results) = MaxQueries
         /\ \A q \in 1..MaxQueries : req.results[q].status # "pending"

\* The request's fetch gave it a result to store: the route did not fall
\* back; the tool's details call returned.
FetchGaveResult(req) ==
    IF req.tool.tool # "none" THEN req.tool.outcome = "value" /\ req.tool.stage = 2
    ELSE ~req.fallback

\* C23: of two requests for the same key that overlap (each looked the key up
\* before the other responded), both missed and both ran their own upstream
\* fetch; each whose fetch gave a result wrote the key, and when both have
\* finished the entry is the one written last, with its value and timestamp.
\* In every state every entry of the store is an entry one request wrote,
\* whole.
OverlappingRequestsLastWriteWins ==
    proc = "overlap" =>
        /\ \A k \in DOMAIN cache : \E i \in Requests : WroteEntry(call.reqs[i], k, cache[k])
        /\ \A i \in Requests : \A j \in Requests \ {i} :
              LET a == call.reqs[i]
                  b == call.reqs[j]
              IN  (/\ a.pc = "done"
                   /\ b.pc = "done"
                   /\ KeyOf(a) = KeyOf(b)
                   /\ a.start < b.end
                   /\ b.start < a.end)
                  => /\ ~a.hit
                     /\ RanOwnFetch(a)
                     /\ FetchGaveResult(a) => KeyOf(a) \in a.wrote
                     /\ (FetchGaveResult(a) /\ (~FetchGaveResult(b) \/ b.end < a.end))
                        => WroteEntry(a, KeyOf(a), cache[KeyOf(a)])

\* Two overlapping requests to the route for one key have both written it,
\* at different times and with different values.
OverlappedWritersOfOneKey ==
    /\ proc = "overlap"
    /\ call.via = "route"
    /\ call.reqs[1].pc = "done"
    /\ call.reqs[2].pc = "done"
    /\ call.reqs[1].category = "React"
    /\ call.reqs[2].category = "React"
    /\ call.reqs[1].start < call.reqs[2].end
    /\ call.reqs[2].start < call.reqs[1].end
    /\ "React" \in call.reqs[1].wrote
    /\ "React" \in call.reqs[2].wrote
    /\ call.reqs[1].body # call.reqs[2].body
    /\ call.reqs[1].at # call.reqs[2].at

\* C24: a request for a category that no table of the code lists runs a live
\* search with that category as its term: every search call of the route and
\* of its reputation-aware variant for such a request is made with the
\* category, and so is the search call of getTrendingVideos.
UnmatchedCategorySearchedAsTerm ==
    /\ (/\ proc \in {"route", "reputation"}
        /\ call.fetched
        /\ call.category # NoCategory
        /\ call.category \notin Range(ReputationCategories))
       => /\ Len(call.calls) >= 1
          /\ \A q \in 1..Len(call.calls) :
                call.calls[q].search # "none" => call.calls[q].query = call.category
    /\ (/\ proc = "service"
        /\ call.tool = "getTrendingVideos"
        /\ call.arg \notin ServiceCategories
        /\ call.stage >= 1)
       => call.query = call.arg

\* C25: in one cycle of the reputation-aware route the channels lookup is
\* issued at most once, and no channel id is asked for twice in the cycle.
ChannelLookupOncePerCycle ==
    (proc = "reputation" /\ call.fetched) =>
        LET issued == {q \in 1..Len(call.calls) : call.calls[q].channels # "none"} IN
        /\ Cardinality(issued) <= 1
        /\ \A q \in issued : \A r \in issued \ {q} :
              call.calls[q].channelIds \cap call.calls[r].channelIds = {}

-----------------------------------------------------------------------------
(* Properties of the quality score *)

\* likeScore + velocityScore + durationScore as the specification writes it,
\* before any rounding: min((likes / views * 100) / 5, 1) * 40, plus
\* min(viewsPerHour / 500, 1) * 30 with viewsPerHour = views / max(hours, 1),
\* plus 30 for 5..20 minutes, 20 for 3..40 minutes, 10 otherwise.  With no
\* views the like ratio counts as 0.
QualitySum(views, likes, durationSeconds, age) ==
    LET hours         == IF age <= MsPerHour THEN RatInt(1) ELSE Rat(age, MsPerHour)
        likeScore     == IF views = 0 THEN RatInt(0)
                         ELSE IF 20 * likes >= views THEN RatInt(40)
                         ELSE Rat(800 * likes, views)
        velocityScore == IF views * hours.d >= 500 * hours.n THEN RatInt(30)
                         ELSE Rat(3 * views * hours.d, 50 * hours.n)
        durationScore == IF 300 <= durationSeconds /\ durationSeconds <= 1200 THEN 30
                         ELSE IF 180 <= durationSeconds /\ durationSeconds <= 2400 THEN 20
                         ELSE 10
    IN  RatAdd(RatAdd(likeScore, velocityScore), RatInt(durationScore))

ScoredSum == QualitySum(call.views, call.likes, call.durationSeconds, now - call.publishedAt)

\* views 1,000,000, likes 50,000, 600 seconds long, published two hours ago
ScenarioScored ==
    /\ proc = "scoring" /\ call.pc = "scored"
    /\ call.views = 1000000 /\ call.likes = 50000 /\ call.durationSeconds = 600
    /\ now - call.publishedAt = 2 * MsPerHour

\* C26 as stated: calculateQualityScore returns likeScore + velocityScore +
\* durationScore itself (for a video that has views), and 100 for the video of
\* the scenario.
QualityScoreIsTheSum ==
    /\ (proc = "scoring" /\ call.pc = "scored" /\ call.views > 0) =>
           call.qualityScore * ScoredSum.d = ScoredSum.n
    /\ ScenarioScored => call.qualityScore = 100

\* C26, amended: calculateQualityScore returns likeScore + velocityScore +
\* durationScore rounded to the nearest integer (a half rounds up), the like
\* ratio counting as 0 for a video without views, and 100 for the video of the
\* scenario.
QualityScoreIsTheRoundedSum ==
    /\ (proc = "scoring" /\ call.pc = "scored") =>
           /\ 2 * call.qualityScore * ScoredSum.d <= 2 * ScoredSum.n + ScoredSum.d
           /\ 2 * ScoredSum.n + ScoredSum.d < 2 * (call.qualityScore + 1) * ScoredSum.d
    /\ ScenarioScored => call.qualityScore = 100

\* The video of the scenario has been scored 100.
ScenarioScoredHundred ==
    ScenarioScored /\ call.qualityScore = 100

\* C27: for views, likes and duration that are not negative the quality score
\* is an integer from 0 to 100.
QualityScoreWithinRange ==
    (proc = "scoring" /\ call.pc = "scored"
        /\ call.views >= 0 /\ call.likes >= 0 /\ call.durationSeconds >= 0) =>
        call.qualityScore \in 0..100

\* A video with more likes than views, viewed far more than 500 times an hour,
\* has been scored: only the caps keep its score at 100.
CappedVideoScored ==
    /\ proc = "scoring" /\ call.pc = "scored"
    /\ call.likes > call.views /\ call.views >= 100000
    /\ now - call.publishedAt <= MsPerHour
    /\ call.qualityScore = 100

-----------------------------------------------------------------------------
(* Properties of the store's frame: expiry, clear and stats *)

\* The programs in which every get of the store is a step of its own: the
\* APICache object called directly and the two routes' Maps.
GetByItself == proc \in {"apicache", "route", "reputation"}

\* The entry of key k is past its expiry: expiresAt in APICache, timestamp +
\* CACHE_TTL_MS in the routes.
EntryExpired(k) ==
    IF proc = "apicache" THEN now > cache[k].expiresAt
    ELSE now - cache[k].timestamp > CACHE_TTL_MS

\* C28: expiry is enforced only at read time.  The clock moving on leaves the
\* store as it is; a key leaves the store only by a get of that key that finds
\* it expired (or with the whole store, by clear or a new store); a get that
\* hits leaves the store and the saved item unchanged; a get that finds its key
\* expired removes that key and leaves every other entry as it was.
ExpiryEnforcedAtReadOnly ==
    [][/\ now' # now => cache' = cache
       /\ GetByItself =>
            LET getStep == hist'.gets # <<>> /\ (hist'.gets # hist.gets \/ hist'.ops # hist.ops)
                storeDropped ==
                    \/ proc = "apicache" /\ call'.op \in {"clear", "new"}
                    \/ proc # "apicache" /\ call' = call /\ cache' = EmptyMap
            IN  /\ \A k \in DOMAIN cache : k \notin DOMAIN cache' =>
                      \/ storeDropped
                      \/ getStep /\ hist'.gets[1].key = k /\ EntryExpired(k)
                /\ getStep /\ hist'.gets[1].hit =>
                      /\ hist'.gets[1].key \in DOMAIN cache
                      /\ ~EntryExpired(hist'.gets[1].key)
                      /\ cache' = cache /\ storage' = storage
                /\ (getStep /\ hist'.gets[1].key \in DOMAIN cache /\ ~hist'.gets[1].hit) =>
                      /\ EntryExpired(hist'.gets[1].key)
                      /\ DOMAIN cache' = DOMAIN cache \ {hist'.gets[1].key}
                      /\ \A j \in DOMAIN cache' : cache'[j] = cache[j]
      ]_vars

\* A get has found its key expired and removed it, and another entry, expired
\* too, is still in the store and counted by getStats.
ExpiredEntryOutlivesAnotherKeysGet ==
    /\ proc = "apicache" /\ call.op = "get" /\ ~call.hit
    /\ hist.gets # <<>> /\ hist.gets[1].known /\ hist.gets[1].removed
    /\ getStats.entries >= 1
    /\ \E j \in getStats.keys : now > cache[j].expiresAt

\* C29: after clear() on an APICache, until the next set on it, getStats
\* reports zero entries and every get returns absent (the get just made, and a
\* get of any key); and at every state getStats().entries is the number of keys
\* it lists, which are the keys the Map holds.
ClearedStoreStaysEmptyUntilSet ==
    /\ (proc = "apicache" /\ call.cleared) =>
          /\ getStats.entries = 0
          /\ call.op = "get" => ~call.hit
          /\ \A a \in CacheArgs, writeOk \in BOOLEAN :
                ~APICacheGet(cache, storage, getCacheKey(a.prefix, a.params), now, writeOk).hit
    /\ proc = "apicache" =>
          /\ getStats.entries = Cardinality(getStats.keys)
          /\ \A k \in getStats.keys : k \in DOMAIN cache
          /\ \A k \in DOMAIN cache : k \in getStats.keys

\* A get on a cleared object has missed the key of an entry that localStorage
\* still holds unexpired: the removal in clear() failed, the Map is empty.
GetAfterClearMisses ==
    /\ proc = "apicache" /\ call.cleared /\ call.op = "get" /\ ~call.hit
    /\ storage.present /\ call.key \in DOMAIN storage.map
    /\ now <= storage.map[call.key].expiresAt
    /\ getStats.entries = 0

-----------------------------------------------------------------------------
(* Properties of the order of the upstream calls in one branch *)

\* The branches of the route's cycle that have settled.
SettledBranches ==
    IF proc = "route" /\ call.fetched
    THEN {q \in 1..Len(call.calls) : call.results[q].status # "pending"}
    ELSE {}

\* The details call is made only after a search that returned successfully
\* with at least one item, and once: each branch of the route has one search
\* and at most one details call, and getTrendingVideos reaches its second
\* fetchWithRetry only from a search that listed an item.
DetailsOnlyAfterFoundSearch ==
    /\ \A q \in SettledBranches :
          call.calls[q].details # "none" => call.calls[q].search = "ok"
    /\ (proc = "service" /\ call.tool = "getTrendingVideos" /\ call.stage = 2) => call.found

\* A search that failed or was empty is followed by no details call.
NoDetailsAfterFailedSearch ==
    /\ \A q \in SettledBranches :
          call.calls[q].search # "ok" => call.calls[q].details = "none"
    /\ (proc = "service" /\ call.tool = "getTrendingVideos" /\ call.pc = "done"
            /\ call.stage >= 1 /\ ~call.found) => call.stage = 1

\* C30 as stated: the details call comes only after a search that succeeded
\* with an item, at most once, and a failed or empty search ends the branch
\* with an empty result and no details call.  A branch that rejects with an
\* error other than the quota signal counts as empty: the join skips it.
FailedSearchEndsBranchEmpty ==
    /\ DetailsOnlyAfterFoundSearch
    /\ NoDetailsAfterFailedSearch
    /\ \A q \in SettledBranches :
          call.calls[q].search # "ok" =>
              (call.results[q].value = <<>> /\ call.results[q].reason # "quota")
    /\ (proc = "service" /\ call.tool = "getTrendingVideos" /\ call.pc = "done"
            /\ call.stage = 1) =>
          (call.outcome = "value" /\ call.value = <<>>)

\* C30, amended: the details call comes only after a search that succeeded
\* with an item, at most once, and a failed or empty search ends the branch
\* with no details call; the branch's result is then empty when the search was
\* empty or, in the route, answered with an error status other than 403, and
\* an error otherwise: in the route the quota signal for a 403 and a rejection
\* for a fetch that failed or a body that is not JSON, in getTrendingVideos the
\* error thrown by the tool.
FailedSearchEndsBranchWithoutDetails ==
    /\ DetailsOnlyAfterFoundSearch
    /\ NoDetailsAfterFailedSearch
    /\ \A q \in SettledBranches :
          /\ call.calls[q].search \in {"empty", "http"} => call.results[q] = Fulfilled(<<>>)
          /\ call.calls[q].search \in {"403", "forbidden"} =>
                call.results[q] = Rejected("quota")
          /\ call.calls[q].search \in {"network", "malformed"} =>
                call.results[q] = Rejected(call.calls[q].search)
    /\ (proc = "service" /\ call.tool = "getTrendingVideos" /\ call.pc = "done"
            /\ call.stage = 1) =>
          \/ call.outcome = "value" /\ call.value = <<>> /\ ~call.found
          \/ call.outcome = "error" /\ call.error \in {"quota", "http", "failed"}

\* A cycle of the route in which one branch's search found an item and made
\* its details call while another branch's search was answered 403 and ended
\* in the quota signal without one.
DetailsAfterSearchBesideQuotaBranch ==
    /\ proc = "route" /\ call.fetched
    /\ \E q \in SettledBranches : \E r \in SettledBranches :
          /\ call.calls[q].search = "ok" /\ call.calls[q].details = "ok"
          /\ call.calls[r].search = "403" /\ call.calls[r].details = "none"
          /\ call.results[r] = Rejected("quota")

-----------------------------------------------------------------------------
(* Properties of the classification of failures *)

\* C31: a 403 counts as quota-exceeded only when it carries the reason
\* quotaExceeded or rateLimitExceeded: a request of the route is answered from
\* the fallback dataset only if a call of one of its branches met such a 403,
\* and a branch whose search met a 403 with another reason does not end in the
\* quota signal.
OnlyQuotaReasonRoutesToFallback ==
    /\ (proc = "route" /\ call.fallback) =>
          \E q \in 1..Len(call.calls) :
              call.calls[q].search = "403" \/ call.calls[q].details = "403"
    /\ (proc = "route" /\ call.fetched) =>
          \A q \in 1..Len(call.calls) :
              call.calls[q].search = "forbidden" => call.results[q].reason # "quota"

-----------------------------------------------------------------------------
(* Properties of termination *)

RECURSIVE TotalDelay(_)
TotalDelay(delays) == IF Len(delays) = 0 THEN 0 ELSE Head(delays) + TotalDelay(Tail(delays))

\* A fetchWithRetry of stage s has just been called.
RetryStarted(s) ==
    proc = "service" /\ call.pc = "fetch" /\ call.stage = s /\ call.attempts = 0

\* The fetchWithRetry of stage s has returned (the tool has gone on to a
\* later stage or has returned) or thrown.
RetryEnded(s) ==
    proc = "service" /\ (call.pc = "done" \/ call.stage > s)

\* The request's one response and where it came from.
Answered ==
    /\ call.pc \in {"responded", "done"}
    /\ \/ call.status = 200 /\ call.hit /\ ~call.live /\ ~call.fallback
       \/ call.status = 200 /\ ~call.hit /\ call.live /\ ~call.fallback
       \/ call.status = 200 /\ ~call.hit /\ ~call.live /\ call.fallback
       \/ call.status = 500 /\ ~call.hit /\ ~call.live /\ ~call.fallback

-----------------------------------------------------------------------------
(* Properties of categorizeVideo *)

\* The keyword groups of the two categorizeVideo functions, in the order of
\* their tests, and the label each returns when no group matches.
ServiceGroups ==
    << [label |-> "AI tutorials",
        words |-> {<<"a","i">>,
                   <<"m","a","c","h","i","n","e"," ","l","e","a","r","n","i","n","g">>,
                   <<"g","p","t">>, <<"l","l","m">>}],
       [label |-> "Career Advice",
        words |-> {<<"c","a","r","e","e","r">>, <<"i","n","t","e","r","v","i","e","w">>,
                   <<"j","o","b">>, <<"s","a","l","a","r","y">>}],
       [label |-> "Web Dev",
        words |-> {<<"r","e","a","c","t">>, <<"n","e","x","t">>, <<"w","e","b">>,
                   <<"f","r","o","n","t","e","n","d">>, <<"c","s","s">>}],
       [label |-> "Coding",
        words |-> {<<"c","o","d","e">>, <<"p","r","o","g","r","a","m","m","i","n","g">>,
                   <<"a","l","g","o","r","i","t","h","m">>,
                   <<"t","u","t","o","r","i","a","l">>}] >>
ServiceDefault == "Industry Trends"

RouteGroups ==
    << [label |-> "React",
        words |-> {<<"r","e","a","c","t">>, <<"n","e","x","t",".","j","s">>,
                   <<"n","e","x","t","j","s">>}],
       [label |-> "AI & ML",
        words |-> {<<"a","i">>,
                   <<"m","a","c","h","i","n","e"," ","l","e","a","r","n","i","n","g">>,
                   <<"g","p","t">>, <<"l","l","m">>,
                   <<"d","e","e","p"," ","l","e","a","r","n","i","n","g">>}],
       [label |-> "Tech Careers",
        words |-> {<<"c","a","r","e","e","r">>, <<"i","n","t","e","r","v","i","e","w">>,
                   <<"j","o","b">>, <<"s","a","l","a","r","y">>}],
       [label |-> "JavaScript",
        words |-> {<<"j","a","v","a","s","c","r","i","p","t">>,
                   <<"t","y","p","e","s","c","r","i","p","t">>, <<"n","o","d","e">>}],
       [label |-> "Open Source",
        words |-> {<<"o","p","e","n"," ","s","o","u","r","c","e">>,
                   <<"g","i","t","h","u","b">>, <<"c","o","n","t","r","i","b","u","t","e">>}],
       [label |-> "Web Dev",
        words |-> {<<"c","s","s">>, <<"h","t","m","l">>, <<"w","e","b">>,
                   <<"f","r","o","n","t","e","n","d">>, <<"b","a","c","k","e","n","d">>}] >>
RouteDefault == "Web Dev"

\* The groups of which a keyword occurs in the text.
MatchingGroups(groups, text) ==
    {g \in 1..Len(groups) : \E w \in groups[g].words : includes(text, w)}

\* The label of the earliest matching group, the default when there is none.
FirstMatch(groups, text, default) ==
    IF MatchingGroups(groups, text) = {} THEN default
    ELSE groups[CHOOSE g \in MatchingGroups(groups, text) :
                    \A h \in MatchingGroups(groups, text) : g <= h].label

\* The text categorizeVideo looks at: title, a space, the tags joined by
\* spaces, in lower case.
CategorizedText == toLowerCase(TitleAndTags(call.title, call.tags))

\* C33: categorizeVideo returns a label for every title and tags: the label of
\* the first group, in the order of the tests, of which a keyword occurs in the
\* lower-cased title and tags, and the default label when none does; the case
\* of the letters of the title and the tags does not change the label.
CategorizeVideoFirstGroupWins ==
    (proc = "scoring" /\ call.pc = "categorized") =>
        /\ call.service = FirstMatch(ServiceGroups, CategorizedText, ServiceDefault)
        /\ call.route = FirstMatch(RouteGroups, CategorizedText, RouteDefault)
        /\ call.service = ServiceCategorizeVideo(toLowerCase(call.title),
                                                 [k \in 1..Len(call.tags) |->
                                                     toLowerCase(call.tags[k])])
        /\ call.route = RouteCategorizeVideo(toLowerCase(call.title),
                                             [k \in 1..Len(call.tags) |->
                                                 toLowerCase(call.tags[k])])

\* A text with keywords of three groups has been given the label of the
\* earliest of them in each function's order.
SeveralGroupsEarliestLabel ==
    /\ proc = "scoring" /\ call.pc = "categorized"
    /\ Cardinality(MatchingGroups(ServiceGroups, CategorizedText)) >= 3
    /\ Cardinality(MatchingGroups(RouteGroups, CategorizedText)) >= 3
    /\ call.service = "AI tutorials"
    /\ call.route = "React"

-----------------------------------------------------------------------------
(* Properties of the provenance of a response *)

\* The route has answered 200 to the request being served.
RouteAnswered ==
    /\ proc = "route"
    /\ call.pc \in {"responded", "done"}
    /\ call.status = 200

\* The ids of the records the branches of this request fetched.
FetchedIds == BranchIds(call.results)

\* C34: the records of a response of the trending route have one origin.  A
\* response after a quota signal holds records of the fallback dataset only,
\* and none of the records its branches fetched; any other response holds no
\* fallback record: its records are those of the aggregation of this request's
\* branches, or the array one earlier aggregation stored under the key.
ResponseIsHomogeneous ==
    RouteAnswered =>
        IF call.fallback
        THEN /\ Range(call.body) \subseteq Range(MOCK_TRENDING_VIDEOS)
             /\ IdsOf(call.body) \cap FetchedIds = {}
             /\ ~call.live /\ ~call.hit
        ELSE /\ Range(call.body) \cap Range(MOCK_TRENDING_VIDEOS) = {}
             /\ IdsOf(call.body) \cap IdsOf(MOCK_TRENDING_VIDEOS) = {}
             /\ call.live # call.hit
             /\ call.live =>
                   /\ \A q \in 1..MaxQueries : call.results[q].reason # "quota"
                   /\ IdsOf(call.body) \subseteq FetchedIds
             /\ call.hit =>
                   /\ hist.gets[1].known
                   /\ call.body = hist.gets[1].setData

\* A request met a quota signal after another of its branches had fetched
\* records, and was answered with fallback records.
FallbackAfterSucceededBranch ==
    /\ RouteAnswered
    /\ call.fallback
    /\ Len(call.body) > 0
    /\ \E q \in 1..MaxQueries : /\ call.results[q].status = "fulfilled"
                                /\ Len(call.results[q].value) > 0

-----------------------------------------------------------------------------
(* Properties of the caches after a fallback response *)

\* No entry of the route's Map holds a record of the fallback dataset.
ServerCacheHoldsNoFallback ==
    proc = "route" =>
        \A k \in DOMAIN cache :
            Range(cache[k].data) \cap Range(MOCK_TRENDING_VIDEOS) = {}

\* The client's localStorage item holds no record of the fallback dataset.
ClientCacheHoldsNoFallback ==
    proc = "route" =>
        (storage.present =>
            Range(storage.data) \cap Range(MOCK_TRENDING_VIDEOS) = {})

\* C35: fallback records are written to no cache: neither an entry of the
\* server's cache nor the client's persistent cache ever holds a record of the
\* fallback dataset.
FallbackNeverCached ==
    ServerCacheHoldsNoFallback /\ ClientCacheHoldsNoFallback

-----------------------------------------------------------------------------
(* Properties of the entries of the server cache *)

\* C36: in every state of the server cache of either trending route, the
\* records stored under a category key all carry that category, and the
\* records stored under any key, "all" included, have pairwise distinct video
\* ids.
CacheEntriesMatchTheirKey ==
    proc \in {"route", "reputation"} =>
        \A k \in DOMAIN cache :
            /\ DistinctIds(cache[k].data)
            /\ k # "all" =>
                  \A i \in 1..Len(cache[k].data) : cache[k].data[i].category = k

\* The route holds a category entry with records, cut from a larger aggregate
\* whose branches had delivered one video id twice.
CategoryEntryCutFromAggregate ==
    /\ proc = "route"
    /\ call.pc \in {"responded", "done"} /\ call.live
    /\ "React" \in DOMAIN cache /\ "all" \in DOMAIN cache
    /\ Len(cache["React"].data) > 0
    /\ Len(cache["all"].data) > Len(cache["React"].data)
    /\ \E p, q \in 1..MaxQueries :
          p # q /\ IdsOf(call.results[p].value) \cap IdsOf(call.results[q].value) # {}

-----------------------------------------------------------------------------
(* Properties of the stored snapshot *)

\* The entries of the localStorage item, none when there is no item.
SnapshotEntries == IF storage.present THEN storage.map ELSE EmptyMap

\* The last call on the cache wrote or removed the stored item.
SnapshotWritten == proc = "apicache" /\ env.localStorage /\ call.saved

\* After a set, an eviction by get or a clear whose storage call went through,
\* the snapshot holds the entries of the map as JSON writes them.
SnapshotIsTheStringifiedMap ==
    SnapshotWritten => SnapshotEntries = Stringified(cache)

\* C37: with localStorage available and its writes going through, after every
\* set, every eviction by get and every clear, the stored snapshot holds
\* exactly the entries of the in-memory map: the same keys, each with the same
\* data and the same expiresAt.
SnapshotMirrorsMap ==
    SnapshotWritten => SnapshotEntries = cache

-----------------------------------------------------------------------------
(* Properties of the ranked results *)

\* getTrendingVideos or searchVideos has returned a list of videos.
ReturnedVideos ==
    /\ proc = "service"
    /\ call.pc = "done" /\ call.outcome = "value"
    /\ call.tool \in {"getTrendingVideos", "searchVideos"}

\* No video of the list has a lower trendScore than a later one.
NonIncreasing(videos) ==
    \A i, j \in 1..Len(videos) :
        i < j => ~ScoreLT(videos[i].trendScore, videos[j].trendScore)

\* The videos of a details response that pass the shorts filter, scored as the
\* tool of the call scores them at time t.
ScoredOf(c, body, t) ==
    {TrendingVideoOf(body.items[k],
                     IF c.tool = "getTrendingVideos" THEN c.arg
                     ELSE ServiceFactsOf(body.items[k]).category, t) :
        k \in {x \in 1..Len(body.items) : ~ServiceFactsOf(body.items[x]).short}}

\* The call computes its result from the details response `body` in this step.
ComputesFrom(body) ==
    /\ TrendingStep(body) \/ SearchStep(body)
    /\ call.stage = 2
    /\ call'.outcome = "value"

\* A result is at most `limit` videos in non-increasing order of trendScore.
RankedWithinLimit ==
    ReturnedVideos =>
        /\ Len(call.value) <= call.limit
        /\ NonIncreasing(call.value)

\* A computed result is made of scored videos of the response, no scored
\* video left out has a higher trendScore than a returned one, and the entry
\* written under the call's key holds the returned value.
ComputedResultIsTheTop ==
    \A body \in StageBodies :
        ComputesFrom(body) =>
            /\ Range(call'.value) \subseteq ScoredOf(call, body, now)
            /\ \A out \in ScoredOf(call, body, now) \ Range(call'.value) :
                  \A in \in Range(call'.value) :
                      ~ScoreLT(in.trendScore, out.trendScore)
            /\ LET key == ToolKey(call.tool, call.arg, call.limit) IN
               /\ key \in DOMAIN cache'
               /\ cache'[key].data = call'.value

\* A result computed from a response is ranked within its limit.
ComputedResultIsRanked ==
    (ReturnedVideos /\ ~call.hit) =>
        /\ Len(call.value) <= call.limit
        /\ NonIncreasing(call.value)

\* C38: getTrendingVideos and searchVideos return at most `limit` videos in
\* non-increasing order of trendScore; no video that passed the filter and was
\* left out has a higher trendScore than a returned one; and the value written
\* to the cache is the value returned.
ReturnsTheTopOfTheRanking ==
    /\ []RankedWithinLimit
    /\ [][ComputedResultIsTheTop]_vars

-----------------------------------------------------------------------------
(* Properties of the channel lookup of the reputation-aware route *)

\* The channels call of branch q was made and did not give its counts.
ChannelLookupFailed(q) ==
    /\ proc = "reputation"
    /\ q \in 1..Len(call.calls)
    /\ call.calls[q].channels \notin {"none", "ok"}

\* The request has its answer and the only calls of it that failed are
\* channel lookups.
AnsweredAfterFailedLookupOnly ==
    /\ proc = "reputation"
    /\ call.pc = "done" /\ call.fetched
    /\ \E q \in 1..Len(call.calls) : ChannelLookupFailed(q)
    /\ \A q \in 1..Len(call.calls) :
          /\ call.calls[q].search \in {"ok", "empty"}
          /\ call.calls[q].details \in {"none", "ok"}

\* A lookup answered with an error status gives the branch the empty result
\* and leaves the request its 200 answer with the videos of the other branches.
RefusedLookupEmptiesItsBranchOnly ==
    /\ \A q \in 1..MaxQueries :
          (ChannelLookupFailed(q) /\ call.calls[q].channels = "http") =>
              call.results[q] = Fulfilled(<<>>)
    /\ (AnsweredAfterFailedLookupOnly
            /\ \A q \in 1..Len(call.calls) : call.calls[q].channels # "network") =>
          /\ call.status = 200
          /\ IdsOf(call.body) = BranchIds(call.results)

\* C39: a failed channel-subscriber lookup raises no error in its branch: the
\* branch ends fulfilled with the empty result, and the request is answered
\* 200 with the videos of its other branches.
FailedLookupEmptiesItsBranchOnly ==
    /\ \A q \in 1..MaxQueries :
          ChannelLookupFailed(q) => call.results[q] = Fulfilled(<<>>)
    /\ AnsweredAfterFailedLookupOnly =>
          /\ call.status = 200
          /\ IdsOf(call.body) = BranchIds(call.results)

====
